---- MODULE Spec2Model ----
(***************************************************************************)
(* dev.pulse: the ingestion-to-feed pipeline.                              *)
(*                                                                         *)
(*   SpecDedup  - deduplicateArticles (lib/pipeline/dedup.ts), one action   *)
(*                per iteration of its outer loop, over input lists drawn  *)
(*                from ArticlePool.                                        *)
(*   SpecMalformed - deduplicateArticles over items with an unparseable    *)
(*                URL or without a title.                                   *)
(*   SpecFeed   - GET /api/articles/today (recent tier, unfiltered) with   *)
(*                the articles cache, the clock, and ingestion passes that *)
(*                upsert rows into the store while requests are in flight. *)
(*   SpecRebuild - SpecFeed with, per rebuild, the history of what was      *)
(*                eligible since its first read and of invalidations.      *)
(*   SpecScroll - a reader paging through one cached dataset with a fixed  *)
(*                limit, from offset 0 until hasMore is false.             *)
(*   SpecClient - the feed page of the browser (app/page.tsx) loading the  *)
(*                recent and then the historical tier.                     *)
(*   SpecPipeline - runs of runPipeline: fetch, deduplicate, score,        *)
(*                summarize, save.                                         *)
(*   SpecRoute  - GET /api/articles/today with languages and frameworks    *)
(*                filters, the historical tier (older=true) and store      *)
(*                errors, next to unfiltered requests.                     *)
(*   SpecParams - one recent-tier request whose limit and offset are raw   *)
(*                strings, parsed as parseInt parses them.                 *)
(*   SpecScorer - one call of scoreArticles (lib/ai/scorer.ts): batches,   *)
(*                their calls settling in any order, the pauses.           *)
(*                                                                         *)
(* Strings that the code inspects character by character (url, title) are  *)
(* sequences of one-character strings; strings that are only tested for    *)
(* truthiness and equality (githubRepo, discussion URLs) are TLA+ strings, *)
(* "" standing for both undefined and the empty string (both falsy).       *)
(***************************************************************************)
EXTENDS Integers, Sequences, FiniteSets, TLC

\* ------------------------------------------------------------------ bounds
\* longest input list handed to deduplicateArticles
MaxItems == 3
\* number of feed requests in one behaviour
MaxRequests == 2
\* number of rows upserted by ingestion passes in one behaviour
MaxUpserts == 1
\* number of ingestion passes in one behaviour
MaxPasses == 1
\* longest cached dataset a reader pages through
MaxData == 7

\* ------------------------------------------------------------ small helpers
Min2(a, b) == IF a <= b THEN a ELSE b
Max2(a, b) == IF a >= b THEN a ELSE b
Range(s) == {s[i] : i \in 1..Len(s)}

\* String.prototype.startsWith / endsWith / slice(n) on character sequences
StartsWith(s, p) == Len(s) >= Len(p) /\ SubSeq(s, 1, Len(p)) = p
DropFirst(s, n) == SubSeq(s, n + 1, Len(s))
\* String.prototype.includes
Includes(s, p) == \E i \in 1..(Len(s) - Len(p) + 1) : SubSeq(s, i, i + Len(p) - 1) = p

\* String.prototype.toLowerCase, letter by letter
LowerTable ==
  [A |-> "a", B |-> "b", C |-> "c", D |-> "d", E |-> "e", F |-> "f", G |-> "g",
   H |-> "h", I |-> "i", J |-> "j", K |-> "k", L |-> "l", M |-> "m", N |-> "n",
   O |-> "o", P |-> "p", Q |-> "q", R |-> "r", S |-> "s", T |-> "t", U |-> "u",
   V |-> "v", W |-> "w", X |-> "x", Y |-> "y", Z |-> "z"]
toLowerCase(s) ==
  [i \in 1..Len(s) |-> IF s[i] \in DOMAIN LowerTable THEN LowerTable[s[i]] ELSE s[i]]

\* ------------------------------------------------------- dedup.ts, functions
\* levenshteinDistance: the matrix is the sequence of its rows, row i being
\* element i + 1, and a row is the sequence whose element j + 1 is
\* matrix[i][j], j = 0..str1.length. levFill is the inner loop for row i
\* (ch = str2.charAt(i - 1)), its index j being the number of cells the row
\* already has; levRows is the outer loop, its index i being the number of rows
\* the matrix already has.
RECURSIVE levFill(_, _, _, _)
levFill(prev, str1, ch, cur) ==
  IF Len(cur) > Len(str1) THEN cur
  ELSE levFill(prev, str1, ch,
               Append(cur, IF ch = str1[Len(cur)]
                           THEN prev[Len(cur)]
                           ELSE Min2(prev[Len(cur)] + 1,
                                     Min2(cur[Len(cur)] + 1, prev[Len(cur) + 1] + 1))))

RECURSIVE levRows(_, _, _)
levRows(str1, str2, matrix) ==
  IF Len(matrix) > Len(str2) THEN matrix
  ELSE levRows(str1, str2,
               Append(matrix, levFill(matrix[Len(matrix)], str1, str2[Len(matrix)],
                                      <<Len(matrix)>>)))

levenshteinDistance(str1, str2) ==
  levRows(str1, str2, <<[j \in 1..(Len(str1) + 1) |-> j - 1]>>)[Len(str2) + 1][Len(str1) + 1]

\* stringSimilarity is the fraction (longer.length - distance) / longer.length;
\* it is kept as the pair <<numerator, denominator>>, <<1, 1>> being 1.0
SimilarityOf(longer, shorter) ==
  IF Len(longer) = 0
  THEN <<1, 1>>
  ELSE <<Len(longer) - levenshteinDistance(longer, shorter), Len(longer)>>

stringSimilarity(str1, str2) ==
  IF Len(str1) > Len(str2) THEN SimilarityOf(str1, str2) ELSE SimilarityOf(str2, str1)

\* similarity >= pct / 100, in exact arithmetic
SimAtLeast(sim, pct) == 100 * sim[1] >= pct * sim[2]

\* titleSimilarityThreshold (default) and the cross-domain threshold, in percent
TitleSimilarityThreshold == 85
CrossDomainThreshold == 95

ChHttps == <<"h", "t", "t", "p", "s", ":", "/", "/">>
ChHttp  == <<"h", "t", "t", "p", ":", "/", "/">>
ChWww   == <<"w", "w", "w", ".">>
ChReleases == <<"/", "r", "e", "l", "e", "a", "s", "e", "s", "/">>

\* .replace(/^https?:\/\//, '')
StripProtocol(s) ==
  IF StartsWith(s, ChHttps) THEN DropFirst(s, Len(ChHttps))
  ELSE IF StartsWith(s, ChHttp) THEN DropFirst(s, Len(ChHttp))
  ELSE s
\* .replace(/^www\./, '')
StripWww(s) == IF StartsWith(s, ChWww) THEN DropFirst(s, Len(ChWww)) ELSE s
\* .replace(/\/$/, '')
StripTrailingSlash(s) ==
  IF Len(s) > 0 /\ s[Len(s)] = "/" THEN SubSeq(s, 1, Len(s) - 1) ELSE s

normalizeUrl(url) == StripTrailingSlash(StripWww(StripProtocol(toLowerCase(url))))

\* new URL(url).hostname for the URLs of UrlPool (no port, credentials, query
\* or fragment): the scheme is matched case-insensitively, the host runs to the
\* first "/" and is lower-cased; a string without scheme or with an empty host
\* does not parse (the constructor throws) and yields <<>>
RECURSIVE UpToSlash(_)
UpToSlash(s) ==
  IF Len(s) = 0 \/ s[1] = "/" THEN <<>> ELSE <<s[1]>> \o UpToSlash(Tail(s))

UrlHostname(url) ==
  LET l == toLowerCase(url)
  IN  IF StartsWith(l, ChHttps) \/ StartsWith(l, ChHttp)
      THEN UpToSlash(StripProtocol(l))
      ELSE <<>>

extractDomain(url) == StripWww(UrlHostname(url))

\* ------------------------------------------------------------ dedup inputs
HostX == <<"x", ".", "c", "o">>
HostXUpper == <<"X", ".", "C", "O">>
HostY == <<"y", ".", "i", "o">>
HostZ == <<"z", ".", "i", "o">>
PathA == <<"/", "a">>
PathAUpper == <<"/", "A">>
PathB == <<"/", "b">>
PathRel == ChReleases \o <<"1">>

UrlXA      == ChHttps \o HostX \o PathA
UrlXAUpper == ChHttps \o HostXUpper \o PathAUpper \o <<"/">>
UrlXB      == ChHttps \o HostX \o PathB
UrlYB      == ChHttps \o HostY \o PathB
UrlYBSlash == ChHttp \o ChWww \o HostY \o PathB \o <<"/">>
UrlZA      == ChHttps \o HostZ \o PathA
UrlXRel    == ChHttps \o HostX \o <<"/", "p">> \o PathRel
UrlYRel    == ChHttps \o HostY \o PathRel
UrlBare    == HostZ \o PathB

\* titles of 20 characters, so that one edit is similarity 0.95 and three 0.85
Title20  == <<"g", "p", "t", " ", "f", "i", "v", "e", " ", "i", "s", " ",
              "r", "e", "l", "e", "a", "s", "e", "d">>
Title20Upper == [Title20 EXCEPT ![1] = "G", ![2] = "P", ![3] = "T"]
Title20Edit1 == [Title20 EXCEPT ![5] = "n"]
Title20Edit3 == [Title20 EXCEPT ![5] = "n", ![6] = "o", ![7] = "w"]
Title20Edit4 == [Title20 EXCEPT ![5] = "n", ![6] = "o", ![7] = "w", ![8] = "n"]
TitleOther == <<"r", "u", "s", "t", " ", "n", "e", "w", "s">>
TitleRelease == <<"v", "1", " ", "o", "u", "t">>
TitleMirror == <<"m", "i", "r", "r", "o", "r">>

Article(url, title, score, repo, hn, reddit) ==
  [url |-> url, title |-> title, score |-> score, githubRepo |-> repo,
   hnDiscussionUrl |-> hn, redditDiscussionUrl |-> reddit]

ArticlePool ==
  { Article(UrlXA,      Title20,      <<10>>, "",    "",     ""),
    Article(UrlXAUpper, TitleOther,   <<50>>, "",    "hn/1", ""),
    Article(UrlYB,      TitleMirror,  <<5>>,  "",    "",     "rd/1"),
    Article(UrlYBSlash, Title20Upper, <<50>>, "",    "",     ""),
    Article(UrlXB,      Title20Edit3, <<>>,   "",    "hn/2", ""),
    Article(UrlZA,      Title20Edit1, <<10>>, "",    "",     "rd/2"),
    Article(UrlXRel,    TitleRelease, <<95>>, "p/t", "",     ""),
    Article(UrlYRel,    TitleMirror,  <<40>>, "p/t", "hn/3", ""),
    Article(UrlBare,    Title20Edit4, <<0>>,  "",    "",     "") }

\* a title that is undefined at run time
NoTitle == <<"undefined">>
\* URLs that new URL() rejects
UrlBareSlash == HostZ \o PathB \o <<"/">>
UrlBareA == HostZ \o PathA
UrlBareRel == HostZ \o PathRel

\* items with an unparseable URL or without a title
MalformedPool ==
  { Article(UrlBare,      Title20,      <<10>>, "",    "", ""),
    Article(UrlBareSlash, TitleOther,   <<20>>, "",    "", ""),
    Article(UrlBareA,     Title20Edit3, <<30>>, "",    "", ""),
    Article(UrlBareRel,   TitleRelease, <<40>>, "p/t", "", ""),
    Article(UrlXRel,      TitleMirror,  <<50>>, "p/t", "", ""),
    Article(UrlYB,        Title20Edit1, <<60>>, "",    "", ""),
    Article(UrlXA,        NoTitle,      <<70>>, "",    "", "") }

\* scoreArticles and summarizeArticles: the default of batchSize
DefaultBatchSize == 10

\* what the adapters of one pipeline pass can return. BatchInput has one item
\* more than a batch holds; its hosts and titles are pairwise different, so
\* that no two of its items are duplicates
BatchDigits == <<"0", "1", "2", "3", "4", "5", "6", "7", "8", "9", "a">>
BatchItem(i) ==
  Article(ChHttps \o <<"h", BatchDigits[i]>> \o <<".", "i", "o">> \o PathA,
          <<"t", BatchDigits[i]>>, <<9 * i>>, "", "", "")
BatchInput == [i \in 1..(DefaultBatchSize + 1) |-> BatchItem(i)]
\* the third item is the first one again under another spelling of its URL
PairInput ==
  << Article(UrlXA,      Title20,     <<10>>, "", "", ""),
     Article(UrlYB,      TitleMirror, <<60>>, "", "", ""),
     Article(UrlXAUpper, TitleOther,  <<50>>, "", "", "") >>
GithubResults == {BatchInput, PairInput}
\* no story, or one story that has no title
HnResults ==
  { << >>,
    << Article(UrlZA, NoTitle, <<70>>, "", "hn/1", "") >> }
PipelinePool ==
  UNION {Range(as) : as \in GithubResults} \cup UNION {Range(as) : as \in HnResults}

\* stringSimilarity(title1.toLowerCase(), title2.toLowerCase()) for the titles
\* of the pools, computed once per pair of titles
TitlePool ==
  {a.title : a \in ArticlePool \cup MalformedPool \cup PipelinePool} \ {NoTitle}
TitleSimilarityPairs ==
  {<<t1, t2, stringSimilarity(toLowerCase(t1), toLowerCase(t2))>> :
     t1 \in TitlePool, t2 \in TitlePool}
TitleSimilarity(title1, title2) ==
  (CHOOSE e \in TitleSimilarityPairs : e[1] = title1 /\ e[2] = title2)[3]

\* (a.score || 0)
ScoreOf(a) == IF a.score = <<>> THEN 0 ELSE a.score[1]

areDuplicates(article1, article2) ==
  IF normalizeUrl(article1.url) = normalizeUrl(article2.url) THEN TRUE
  ELSE IF /\ article1.githubRepo # ""
          /\ article2.githubRepo # ""
          /\ article1.githubRepo = article2.githubRepo
          /\ Includes(article1.url, ChReleases)
          /\ Includes(article2.url, ChReleases) THEN TRUE
  ELSE LET domain1 == extractDomain(article1.url)
           domain2 == extractDomain(article2.url)
           titleSimilarity == TitleSimilarity(article1.title, article2.title)
       IN  IF /\ domain1 # <<>> /\ domain2 # <<>> /\ domain1 = domain2
              /\ SimAtLeast(titleSimilarity, TitleSimilarityThreshold) THEN TRUE
           ELSE SimAtLeast(titleSimilarity, CrossDomainThreshold)

\* areDuplicates throws a TypeError: neither rule 1 nor rule 2 returned, and
\* title.toLowerCase() is called on a title that is undefined
areDuplicatesThrows(article1, article2) ==
  /\ normalizeUrl(article1.url) # normalizeUrl(article2.url)
  /\ ~(/\ article1.githubRepo # ""
        /\ article2.githubRepo # ""
        /\ article1.githubRepo = article2.githubRepo
        /\ Includes(article1.url, ChReleases)
        /\ Includes(article2.url, ChReleases))
  /\ (article1.title = NoTitle \/ article2.title = NoTitle)

\* the rule by which areDuplicates returns true, 0 if it returns false
MatchingRule(article1, article2) ==
  IF normalizeUrl(article1.url) = normalizeUrl(article2.url) THEN 1
  ELSE IF /\ article1.githubRepo # ""
          /\ article2.githubRepo # ""
          /\ article1.githubRepo = article2.githubRepo
          /\ Includes(article1.url, ChReleases)
          /\ Includes(article2.url, ChReleases) THEN 2
  ELSE LET domain1 == extractDomain(article1.url)
           domain2 == extractDomain(article2.url)
           titleSimilarity == TitleSimilarity(article1.title, article2.title)
       IN  IF /\ domain1 # <<>> /\ domain2 # <<>> /\ domain1 = domain2
              /\ SimAtLeast(titleSimilarity, TitleSimilarityThreshold) THEN 3
           ELSE IF SimAtLeast(titleSimilarity, CrossDomainThreshold) THEN 4
           ELSE 0

\* [...articles].sort((a, b) => (b.score || 0) - (a.score || 0)): a stable
\* insertion of each element behind every element whose score is not lower
RECURSIVE InsertByScore(_, _)
InsertByScore(sorted, a) ==
  IF Len(sorted) = 0 THEN <<a>>
  ELSE IF ScoreOf(Head(sorted)) >= ScoreOf(a)
       THEN <<Head(sorted)>> \o InsertByScore(Tail(sorted), a)
       ELSE <<a>> \o sorted

RECURSIVE SortByScoreDesc(_)
SortByScoreDesc(as) ==
  IF Len(as) = 0 THEN <<>>
  ELSE InsertByScore(SortByScoreDesc(SubSeq(as, 1, Len(as) - 1)), as[Len(as)])

Truthy(s) == s # ""

\* a merge of the discussion URLs that takes the first URL found whether or
\* not the canonical copy has one
BackfillOverwriting(canon, as) ==
  LET hnUrls == SelectSeq([i \in 1..Len(as) |-> as[i].hnDiscussionUrl], Truthy)
      redditUrls == SelectSeq([i \in 1..Len(as) |-> as[i].redditDiscussionUrl], Truthy)
  IN  [canon EXCEPT
         !.hnDiscussionUrl =
            IF Len(hnUrls) > 0 THEN hnUrls[1] ELSE canon.hnDiscussionUrl,
         !.redditDiscussionUrl =
            IF Len(redditUrls) > 0 THEN redditUrls[1] ELSE canon.redditDiscussionUrl]

\* the discussion-URL part of mergeArticles: canon is the copy of sorted[0]
BackfillDiscussion(canon, as) ==
  LET hnUrls == SelectSeq([i \in 1..Len(as) |-> as[i].hnDiscussionUrl], Truthy)
      redditUrls == SelectSeq([i \in 1..Len(as) |-> as[i].redditDiscussionUrl], Truthy)
  IN  [canon EXCEPT
         !.hnDiscussionUrl =
            IF Len(hnUrls) > 0 /\ ~Truthy(canon.hnDiscussionUrl)
            THEN hnUrls[1] ELSE canon.hnDiscussionUrl,
         !.redditDiscussionUrl =
            IF Len(redditUrls) > 0 /\ ~Truthy(canon.redditDiscussionUrl)
            THEN redditUrls[1] ELSE canon.redditDiscussionUrl]

\* mergeArticles with the comparator reversed: (a.score || 0) - (b.score || 0)
mergeArticlesLowestFirst(as) ==
  IF Len(as) = 1 THEN as[1]
  ELSE BackfillDiscussion(SortByScoreDesc(as)[Len(as)], as)

\* mergeArticles keeping the URL of the first array element
mergeArticlesKeepFirstUrl(as) ==
  IF Len(as) = 1 THEN as[1]
  ELSE BackfillDiscussion([SortByScoreDesc(as)[1] EXCEPT !.url = as[1].url], as)

\* mergeArticles (never called with an empty array by deduplicateArticles)
mergeArticles(as) ==
  IF Len(as) = 1 THEN as[1]
  ELSE BackfillDiscussion(SortByScoreDesc(as)[1], as)

RECURSIVE SeqsUpTo(_, _)
SeqsUpTo(S, n) ==
  IF n = 0 THEN {<<>>}
  ELSE LET shorter == SeqsUpTo(S, n - 1)
       IN  shorter \cup {Append(s, x) : s \in {t \in shorter : Len(t) = n - 1}, x \in S}

\* ------------------------------------------------------------------- state
VARIABLES
  articles,     \* deduplicateArticles: the input list
  pos,          \* number of input items the outer loop has consumed
  canonical,    \* the canonical array
  duplicates,   \* the duplicates Map: canonical URL -> list of articles
  members,      \* history: per slot, the input positions placed into it, in order
  lastMerge,    \* history: what the last iteration did
  today,        \* the clock: the current UTC day number
  store,        \* the article table: url -> importanceScore, Absent if no row
  cache,        \* articles-cache.ts: the module-level `cache`
  stats,        \* articles-cache.ts: the module-level `stats`
  req,          \* per request slot: position in GET, its locals and its history
  pass,         \* the ingestion pass in progress, if any
  counts,       \* numbers of upserts and passes so far
  lastResp,     \* history: the last response body of GET
  freshPass,    \* history: a pass returned success and no read has started since
  scroll,       \* the paging reader
  client,       \* the feed page in the browser: its React state and request in flight
  pipe,         \* one run of runPipeline: its position and locals
  pageReq,      \* one GET with raw limit and offset strings on a cached dataset
  scorer,       \* one call of scoreArticles: its loop, its calls and its history
  recording     \* history: whether requests keep eligible and invalidated

dedupVars == <<articles, pos, canonical, duplicates, members, lastMerge>>
feedVars == <<today, store, cache, stats, req, pass, counts, lastResp, freshPass,
               recording>>
vars == <<articles, pos, canonical, duplicates, members, lastMerge,
          today, store, cache, stats, req, pass, counts, lastResp, freshPass,
          scroll, client, pipe, pageReq, scorer, recording>>

\* a lookup that finds no list, so that the list is started anew
MapGetNothing(map, key) == <<>>

\* Map.get(key) || []
MapGet(map, key) == IF key \in DOMAIN map THEN map[key] ELSE <<>>
\* Map.set(key, value)
MapSet(map, key, value) ==
  [k \in (DOMAIN map) \cup {key} |-> IF k = key THEN value ELSE map[k]]

EmptyMap == [k \in {} |-> <<>>]

NoMerge == [kind |-> "none", slot |-> 0]

\* deduplicateArticles before its first iteration
DedupEntry ==
  /\ pos = 0
  /\ canonical = <<>>
  /\ duplicates = EmptyMap
  /\ members = <<>>
  /\ lastMerge = NoMerge

\* index of the first canonical entry the article duplicates, 0 if none
FirstDuplicateSlot(article, canon) ==
  IF \E i \in 1..Len(canon) : areDuplicates(article, canon[i])
  THEN CHOOSE i \in 1..Len(canon) :
         /\ areDuplicates(article, canon[i])
         /\ \A j \in 1..(i - 1) : ~areDuplicates(article, canon[j])
  ELSE 0

\* the inner loop reaches a comparison that throws before one that matches
RECURSIVE ScanThrows(_, _, _)
ScanThrows(article, canon, i) ==
  IF i > Len(canon) THEN FALSE
  ELSE IF areDuplicatesThrows(article, canon[i]) THEN TRUE
  ELSE IF areDuplicates(article, canon[i]) THEN FALSE
  ELSE ScanThrows(article, canon, i + 1)

DedupThrows(article, canon) == ScanThrows(article, canon, 1)

\* one iteration of `for (const article of articles)`
DedupStep ==
  /\ pos < Len(articles)
  /\ lastMerge.kind # "throw"
  /\ ~DedupThrows(articles[pos + 1], canonical)
  /\ LET article == articles[pos + 1]
         i == FirstDuplicateSlot(article, canonical)
     IN  IF i # 0
         THEN LET existing == canonical[i]
                  merged == mergeArticles(<<existing, article>>)
              IN  /\ canonical' = [canonical EXCEPT ![i] = merged]
                  /\ duplicates' =
                       MapSet(duplicates, merged.url,
                              Append(MapGet(duplicates, merged.url), article))
                  /\ members' = [members EXCEPT ![i] = Append(@, pos + 1)]
                  /\ lastMerge' = [kind |-> "merge", slot |-> i]
         ELSE /\ canonical' = Append(canonical, article)
              /\ duplicates' = duplicates
              /\ members' = Append(members, <<pos + 1>>)
              /\ lastMerge' = [kind |-> "new", slot |-> Len(canonical) + 1]
  /\ pos' = pos + 1
  /\ UNCHANGED articles
  /\ UNCHANGED <<feedVars, scroll, client, pipe, pageReq, scorer>>

\* an iteration in which areDuplicates throws: the exception leaves
\* deduplicateArticles, which has no try around the comparison
DedupRaise ==
  /\ pos < Len(articles)
  /\ lastMerge.kind # "throw"
  /\ DedupThrows(articles[pos + 1], canonical)
  /\ lastMerge' = [kind |-> "throw", slot |-> 0]
  /\ UNCHANGED <<articles, pos, canonical, duplicates, members>>
  /\ UNCHANGED <<feedVars, scroll, client, pipe, pageReq, scorer>>

dedupReturned == pos = Len(articles) /\ lastMerge.kind # "throw"

\* ------------------------------------------------- the store and the clock
\* the URLs of the article table; what the pipeline writes once per URL
\* (orchestrator.ts create branch) is fixed here, the score is what an upsert
\* changes. The publish days are pairwise different, so that the orderBy of
\* every findMany is a total order.
FeedUrls == {"u1", "u2", "u3", "u4"}
UrlAttrs ==
  [u1 |-> [category |-> "launch",   isGithubTrending |-> FALSE, githubStars |-> 0,
           publishedAt |-> 3, languages |-> {"rust"}, frameworks |-> {}],
   u2 |-> [category |-> "research", isGithubTrending |-> FALSE, githubStars |-> 0,
           publishedAt |-> 2, languages |-> {"python"}, frameworks |-> {"react"}],
   u3 |-> [category |-> "trending", isGithubTrending |-> TRUE,  githubStars |-> 50,
           publishedAt |-> 1, languages |-> {"rust"}, frameworks |-> {"react"}],
   u4 |-> [category |-> "tools",    isGithubTrending |-> TRUE,  githubStars |-> 10,
           publishedAt |-> 0, languages |-> {"go"}, frameworks |-> {}]]
\* the scores the classifier hands to the save phase
ScorePool == {30, 50, 80, 96}
Absent == -1
Days == {3, 4}

EmptyStore == [u \in FeedUrls |-> Absent]
SeededStore == [u1 |-> 80, u2 |-> 80, u3 |-> 60, u4 |-> 50]
\* a table with critical articles, one of them trending and the oldest
RouteStore == [u1 |-> 96, u2 |-> 80, u3 |-> 60, u4 |-> 96]

\* a row of the article table as findMany returns it
Row(st, u) ==
  [url |-> u, importanceScore |-> st[u], category |-> UrlAttrs[u].category,
   isGithubTrending |-> UrlAttrs[u].isGithubTrending,
   githubStars |-> UrlAttrs[u].githubStars, publishedAt |-> UrlAttrs[u].publishedAt]
Rows(st) == {Row(st, u) : u \in {v \in FeedUrls : st[v] # Absent}}

\* orderBy: [{ importanceScore: 'desc' }, { publishedAt: 'desc' }]
ByScoreThenDate(a, b) ==
  \/ a.importanceScore > b.importanceScore
  \/ a.importanceScore = b.importanceScore /\ a.publishedAt > b.publishedAt
\* orderBy: [{ githubStars: 'desc' }, { publishedAt: 'desc' }]
ByStarsThenDate(a, b) ==
  \/ a.githubStars > b.githubStars
  \/ a.githubStars = b.githubStars /\ a.publishedAt > b.publishedAt

\* the rows of a result set in the order of its orderBy
Before(a, b, orderBy) ==
  IF orderBy = "stars" THEN ByStarsThenDate(a, b) ELSE ByScoreThenDate(a, b)
RECURSIVE OrderRows(_, _)
OrderRows(S, orderBy) ==
  IF S = {} THEN <<>>
  ELSE LET first == CHOOSE x \in S : \A y \in S \ {x} : Before(x, y, orderBy)
       IN  <<first>> \o OrderRows(S \ {first}, orderBy)

\* the five findMany calls of the rebuild; baseWhere is importanceScore >= 40
\* and publishedAt >= threeDaysAgo, the score buckets override its score range
BucketOrder == <<"critical", "major", "notable", "info", "trending">>
InBucket(row, bucket) ==
  CASE bucket = "critical" -> row.importanceScore >= 95
    [] bucket = "major"    -> row.importanceScore >= 75 /\ row.importanceScore < 95
    [] bucket = "notable"  -> row.importanceScore >= 55 /\ row.importanceScore < 75
    [] bucket = "info"     -> row.importanceScore >= 40 /\ row.importanceScore < 55
    [] bucket = "trending" -> row.importanceScore >= 40 /\ row.isGithubTrending
findMany(st, threeDaysAgo, bucket) ==
  LET matching == {row \in Rows(st) :
                     row.publishedAt >= threeDaysAgo /\ InBucket(row, bucket)}
  IN  IF bucket = "trending"
      THEN OrderRows(matching, "stars")
      ELSE OrderRows(matching, "score")

\* hasFilters: a non-empty languages or frameworks parameter
hasFiltersLanguagesOnly(languages, frameworks) == languages # {}
hasFilters(languages, frameworks) == languages # {} \/ frameworks # {}

\* languages: { hasSome: languages } and frameworks: { hasSome: frameworks },
\* each added to the where clause only for a non-empty parameter
matchesFilters(row, languages, frameworks) ==
  /\ languages # {} => UrlAttrs[row.url].languages \cap languages # {}
  /\ frameworks # {} => UrlAttrs[row.url].frameworks \cap frameworks # {}

\* a findMany of the rebuild with the filters of the request in baseWhere
findManyWhere(st, threeDaysAgo, bucket, languages, frameworks) ==
  LET Matches(row) == matchesFilters(row, languages, frameworks)
  IN  SelectSeq(findMany(st, threeDaysAgo, bucket), Matches)

\* the findMany of fetchHistoricalArticles before skip and take: the rows with
\* a score of at least 40 published before beforeDate that match the filters
findHistorical(st, beforeDate, languages, frameworks) ==
  OrderRows({row \in Rows(st) :
               /\ row.importanceScore >= 40
               /\ row.publishedAt < beforeDate
               /\ matchesFilters(row, languages, frameworks)}, "score")

\* ------------------------------------------------------- articles-cache.ts
NoCache == [present |-> FALSE]
\* getCached returns null, or the stored array: <<>> or <<data>>
Miss == <<>>
CacheEntry(data, epoch, isValid) ==
  [present |-> TRUE, data |-> data, epoch |-> epoch, isValid |-> isValid]

\* getCached without the epoch comparison
getCachedIgnoringEpoch(c, st, currentEpoch) ==
  IF ~c.present \/ ~c.isValid
  THEN [result |-> Miss, cache |-> c,
        stats |-> [st EXCEPT !.misses = @ + 1]]
  ELSE [result |-> <<c.data>>, cache |-> c,
        stats |-> [st EXCEPT !.hits = @ + 1]]

\* getCached(currentEpoch): the returned value and the cache and stats it leaves
getCached(c, st, currentEpoch) ==
  IF ~c.present \/ ~c.isValid
  THEN [result |-> Miss, cache |-> c,
        stats |-> [st EXCEPT !.misses = @ + 1]]
  ELSE IF c.epoch # currentEpoch
  THEN [result |-> Miss, cache |-> [c EXCEPT !.isValid = FALSE],
        stats |-> [st EXCEPT !.misses = @ + 1]]
  ELSE [result |-> <<c.data>>, cache |-> c,
        stats |-> [st EXCEPT !.hits = @ + 1]]

\* setCache(articles, epoch); the timestamp is not modelled
setCache(c, data, epoch) == CacheEntry(data, epoch, TRUE)

\* invalidate() that also empties the stored array
invalidateClearing(c) ==
  IF c.present THEN [c EXCEPT !.isValid = FALSE, !.data = <<>>] ELSE c

\* invalidate()
invalidate(c) == IF c.present THEN [c EXCEPT !.isValid = FALSE] ELSE c

\* -------------------------------------------- GET /api/articles/today
\* Array.prototype.slice(start, end) for integer arguments
RelativeIndex(len, k) == IF k < 0 THEN Max2(len + k, 0) ELSE Min2(k, len)
SliceJs(seq, start, end) ==
  SubSeq(seq, RelativeIndex(Len(seq), start) + 1, RelativeIndex(Len(seq), end))

\* the limit and offset query parameters, integers or absent (<<>>)
parseLimit(raw) == Min2(IF raw = <<>> THEN 10 ELSE raw[1], 50)
parseOffset(raw) == Max2(0, IF raw = <<>> THEN 0 ELSE raw[1])

\* threeDaysAgo as a day number, and epoch, its date
ThreeDaysAgo(day) == day - 3
Epoch(day) == ThreeDaysAgo(day)

\* a label that tests the trending flag before the score
HitSectionTrendingFirst(article) ==
  IF article.isGithubTrending THEN "spotlight"
  ELSE IF article.importanceScore >= 95 THEN "critical"
  ELSE "noteworthy"

\* the section label on the cache-hit path
HitSection(article) ==
  IF article.importanceScore >= 95 THEN "critical"
  ELSE IF article.isGithubTrending THEN "spotlight"
  ELSE "noteworthy"
\* the section label on the rebuild path
BuildSection(article, seenUrls) ==
  IF article.importanceScore >= 95 THEN "critical"
  ELSE IF article.isGithubTrending /\ article.url \in seenUrls THEN "spotlight"
  ELSE "noteworthy"

WithSection(article, section) ==
  [url |-> article.url, importanceScore |-> article.importanceScore,
   section |-> section]

\* the cache-hit response with hasMore computed by <=
HitResponseInclusive(cached, offset, limit) ==
  LET page == SliceJs(cached, offset, offset + limit)
  IN  [success |-> TRUE,
       articles |-> [i \in 1..Len(page) |-> WithSection(page[i], HitSection(page[i]))],
       count |-> Len(page),
       total |-> Len(cached),
       hasMore |-> offset + limit <= Len(cached),
       cached |-> TRUE]

\* the body of the cache-hit response
HitResponse(cached, offset, limit) ==
  LET page == SliceJs(cached, offset, offset + limit)
  IN  [success |-> TRUE,
       articles |-> [i \in 1..Len(page) |-> WithSection(page[i], HitSection(page[i]))],
       count |-> Len(page),
       total |-> Len(cached),
       hasMore |-> offset + limit < Len(cached),
       cached |-> TRUE]

\* addUnique(articles, maxCount) on the pair of balancedFeed and seenUrls
RECURSIVE addUniqueLoop(_, _, _, _)
addUniqueLoop(acc, as, maxCount, added) ==
  IF Len(as) = 0 \/ added >= maxCount THEN acc
  ELSE IF Head(as).url \in acc.seenUrls
       THEN addUniqueLoop(acc, Tail(as), maxCount, added)
       ELSE addUniqueLoop([balancedFeed |-> Append(acc.balancedFeed, Head(as)),
                           seenUrls |-> acc.seenUrls \cup {Head(as).url}],
                          Tail(as), maxCount, added + 1)

\* addUnique that does not consult seenUrls
addUniqueNoCheck(acc, as, maxCount) ==
  [balancedFeed |-> acc.balancedFeed \o SubSeq(as, 1, Min2(Len(as), maxCount)),
   seenUrls |-> acc.seenUrls \cup {as[i].url : i \in 1..Min2(Len(as), maxCount)}]

addUnique(acc, as, maxCount) == addUniqueLoop(acc, as, maxCount, 0)

LaunchCategories == {"launch", "trending", "tools", "library"}
IsLaunchLike(a) == a.category \in LaunchCategories
IsOtherMajor(a) == a.category \notin LaunchCategories

\* the balanced feed and seenUrls built from the five query results
BuildFeed(critical, major, notable, info, trending) ==
  LET launchesAndTools == SelectSeq(major, IsLaunchLike)
      otherMajor == SelectSeq(major, IsOtherMajor)
      s0 == [balancedFeed |-> <<>>, seenUrls |-> {}]
      s1 == addUnique(s0, critical, Len(critical))
      s2 == addUnique(s1, launchesAndTools, Len(launchesAndTools))
      s3 == addUnique(s2, otherMajor, Len(otherMajor))
      s4 == addUnique(s3, notable, Len(notable))
      s5 == addUnique(s4, trending, Len(trending))
  IN  addUnique(s5, info, Len(info))

\* the body of the response after a rebuild
BuildResponse(built, offset, limit) ==
  LET page == SliceJs(built.balancedFeed, offset, offset + limit)
  IN  [success |-> TRUE,
       articles |-> [i \in 1..Len(page) |->
                       WithSection(page[i], BuildSection(page[i], built.seenUrls))],
       count |-> Len(page),
       total |-> Len(built.balancedFeed),
       hasMore |-> offset + limit < Len(built.balancedFeed),
       cached |-> FALSE]

\* the raw limit and offset parameters of the requests
RequestParams ==
  {[limit |-> <<>>, offset |-> <<>>, languages |-> {}, frameworks |-> {},
    older |-> FALSE],
   [limit |-> <<2>>, offset |-> <<1>>, languages |-> {}, frameworks |-> {},
    older |-> FALSE]}
\* requests with a filter or for the historical tier next to plain ones
RouteParams ==
  {[limit |-> <<>>, offset |-> <<>>, languages |-> {}, frameworks |-> {},
    older |-> FALSE],
   [limit |-> <<>>, offset |-> <<>>, languages |-> {"rust"}, frameworks |-> {},
    older |-> FALSE],
   [limit |-> <<2>>, offset |-> <<>>, languages |-> {}, frameworks |-> {"react"},
    older |-> FALSE],
   [limit |-> <<>>, offset |-> <<>>, languages |-> {}, frameworks |-> {},
    older |-> TRUE],
   [limit |-> <<>>, offset |-> <<>>, languages |-> {"go"}, frameworks |-> {},
    older |-> TRUE]}

\* what a pass of the pipeline may write
UpsertPool == {[url |-> "u2", score |-> 96], [url |-> "u4", score |-> 30]}

RequestSlots == {"r1", "r2"}
IdleRequest == [pc |-> "idle"]
NoResponse == [success |-> FALSE, count |-> 0]
IdlePass == [pc |-> "idle"]

\* the process right after start-up
FeedEntry ==
  /\ today = 3
  /\ cache = NoCache
  /\ stats = [hits |-> 0, misses |-> 0]
  /\ req = [r \in RequestSlots |-> IdleRequest]
  /\ pass = IdlePass
  /\ counts = [upserts |-> 0, passes |-> 0]
  /\ lastResp = NoResponse
  /\ freshPass = FALSE

\* history: the URLs whose rows are in the recency window with a score of at
\* least 40
Eligible(st, threeDaysAgo) ==
  {u \in FeedUrls : st[u] >= 40 /\ UrlAttrs[u].publishedAt >= threeDaysAgo}

\* the locals of GET when it awaits its queries. History: from the first read
\* of the rebuild on, eligible holds the URLs that have been Eligible at that
\* read and ever since; invalidated tells that invalidate() was called after a
\* read of the rebuild
Querying(params, day) ==
  [pc |-> "querying", epoch |-> Epoch(day), threeDaysAgo |-> ThreeDaysAgo(day),
   offset |-> parseOffset(params.offset), limit |-> parseLimit(params.limit),
   languages |-> params.languages, frameworks |-> params.frameworks,
   hasFilters |-> hasFilters(params.languages, params.frameworks),
   results |-> EmptyMap,
   eligible |-> {}, invalidated |-> FALSE]

\* GET up to the first await: parameters, epoch, the call of
\* fetchHistoricalArticles for older=true, getCached for a request without
\* filters, and on a hit the whole response
RequestStart(r, params) ==
  /\ req[r].pc = "idle"
  /\ stats.hits + stats.misses < MaxRequests
  /\ LET limit == parseLimit(params.limit)
         offset == parseOffset(params.offset)
         got == getCached(cache, stats, Epoch(today))
         querying == Querying(params, today)
     IN  IF params.older
         THEN /\ req' = [req EXCEPT ![r] = [querying EXCEPT !.pc = "historical"]]
              /\ UNCHANGED <<cache, stats, lastResp>>
         ELSE IF querying.hasFilters
         THEN /\ req' = [req EXCEPT ![r] = querying]
              /\ UNCHANGED <<cache, stats, lastResp>>
         ELSE /\ cache' = got.cache
              /\ stats' = got.stats
              /\ IF got.result # Miss
                 THEN /\ lastResp' = HitResponse(got.result[1], offset, limit)
                      /\ req' = req
                 ELSE /\ lastResp' = lastResp
                      /\ req' = [req EXCEPT ![r] = querying]
  /\ freshPass' = FALSE
  /\ UNCHANGED <<today, store, pass, counts>>
  /\ UNCHANGED <<dedupVars, scroll, client, pipe, pageReq, scorer, recording>>

\* the next of the five findMany calls, issued in the order of the array
\* handed to Promise.all, reads the table
QueryBucket(r) ==
  /\ req[r].pc = "querying"
  /\ Len(req[r].results) < Len(BucketOrder)
  /\ req' = [req EXCEPT ![r].results =
               Append(@, findManyWhere(store, req[r].threeDaysAgo,
                                       BucketOrder[Len(req[r].results) + 1],
                                       req[r].languages, req[r].frameworks)),
                        ![r].eligible =
               IF recording /\ Len(req[r].results) = 0
               THEN Eligible(store, req[r].threeDaysAgo) ELSE @]
  /\ UNCHANGED <<today, store, cache, stats, pass, counts, lastResp, freshPass>>
  /\ UNCHANGED <<dedupVars, scroll, client, pipe, pageReq, scorer, recording>>

\* GET after Promise.all has resolved: build the feed, setCache unless the
\* request has filters, respond
Assemble(r) ==
  /\ req[r].pc = "querying"
  /\ Len(req[r].results) = Len(BucketOrder)
  /\ LET res == req[r].results
         built == BuildFeed(res[1], res[2], res[3], res[4], res[5])
     IN  /\ cache' = IF req[r].hasFilters THEN cache
                     ELSE setCache(cache, built.balancedFeed, req[r].epoch)
         /\ lastResp' = BuildResponse(built, req[r].offset, req[r].limit)
  /\ req' = [req EXCEPT ![r] = IdleRequest]
  /\ UNCHANGED <<today, store, stats, pass, counts, freshPass>>
  /\ UNCHANGED <<dedupVars, scroll, client, pipe, pageReq, scorer, recording>>

\* the UTC day changes
Midnight ==
  /\ today + 1 \in Days
  /\ today' = today + 1
  /\ UNCHANGED <<store, cache, stats, req, pass, counts, lastResp, freshPass>>
  /\ UNCHANGED <<dedupVars, scroll, client, pipe, pageReq, scorer, recording>>

\* GET /api/cron/fetch calls runPipeline
CronStart ==
  /\ pass.pc = "idle"
  /\ counts.passes < MaxPasses
  /\ pass' = [pc |-> "saving", kind |-> "cron"]
  /\ counts' = [counts EXCEPT !.passes = @ + 1]
  /\ UNCHANGED <<today, store, cache, stats, req, lastResp, freshPass>>
  /\ UNCHANGED <<dedupVars, scroll, client, pipe, pageReq, scorer, recording>>

\* POST /api/refresh calls runPipeline
RefreshStart ==
  /\ pass.pc = "idle"
  /\ counts.passes < MaxPasses
  /\ pass' = [pc |-> "saving", kind |-> "refresh"]
  /\ counts' = [counts EXCEPT !.passes = @ + 1]
  /\ UNCHANGED <<today, store, cache, stats, req, lastResp, freshPass>>
  /\ UNCHANGED <<dedupVars, scroll, client, pipe, pageReq, scorer, recording>>

\* prisma.article.upsert: create the row, or update the score of the row
upsert(st, u, score) == [st EXCEPT ![u] = score]

\* one iteration of the save loop of runPipeline
PipelineSave(item) ==
  /\ pass.pc = "saving"
  /\ counts.upserts < MaxUpserts
  /\ store' = upsert(store, item.url, item.score)
  /\ counts' = [counts EXCEPT !.upserts = @ + 1]
  /\ req' = [r \in RequestSlots |->
               IF recording /\ req[r].pc = "querying" /\ Len(req[r].results) > 0
               THEN [req[r] EXCEPT !.eligible = @ \cap Eligible(store', req[r].threeDaysAgo)]
               ELSE req[r]]
  /\ UNCHANGED <<today, cache, stats, pass, lastResp, freshPass>>
  /\ UNCHANGED <<dedupVars, scroll, client, pipe, pageReq, scorer, recording>>

\* runPipeline returns success to the cron route, which returns its response
CronReturn ==
  /\ pass.pc = "saving"
  /\ pass.kind = "cron"
  /\ pass' = IdlePass
  /\ freshPass' = TRUE
  /\ UNCHANGED <<today, store, cache, stats, req, counts, lastResp>>
  /\ UNCHANGED <<dedupVars, scroll, client, pipe, pageReq, scorer, recording>>

\* runPipeline returns success to the refresh route, which invalidates the cache
RefreshReturn ==
  /\ pass.pc = "saving"
  /\ pass.kind = "refresh"
  /\ cache' = invalidate(cache)
  /\ pass' = IdlePass
  /\ freshPass' = TRUE
  /\ req' = [r \in RequestSlots |->
               IF recording /\ req[r].pc = "querying" /\ Len(req[r].results) > 0
               THEN [req[r] EXCEPT !.invalidated = TRUE]
               ELSE req[r]]
  /\ UNCHANGED <<today, store, stats, counts, lastResp>>
  /\ UNCHANGED <<dedupVars, scroll, client, pipe, pageReq, scorer, recording>>

NextFeed ==
  \/ \E r \in RequestSlots, params \in RequestParams : RequestStart(r, params)
  \/ \E r \in RequestSlots : QueryBucket(r)
  \/ \E r \in RequestSlots : Assemble(r)
  \/ Midnight
  \/ CronStart
  \/ RefreshStart
  \/ \E item \in UpsertPool : PipelineSave(item)
  \/ CronReturn
  \/ RefreshReturn

\* ------------------------------------------------------- a paging reader
\* a cached dataset of n entries, told apart by their URLs
Dataset(n) ==
  [i \in 1..n |-> [url |-> i, importanceScore |-> 50, category |-> "research",
                   isGithubTrending |-> FALSE, githubStars |-> 0, publishedAt |-> 0]]
\* the limit parameters a reader pages with
ScrollLimits == {1, 2, 3, 50}
ScrollIdle == scroll = [pc |-> "idle"]
ClientIdle == client = [pc |-> "idle"]
PipeIdle == pipe = [pc |-> "idle"]
PageIdle == pageReq = [pc |-> "idle"]
ScorerIdle == scorer = [pc |-> "idle"]

PageUrls(response) == [i \in 1..Len(response.articles) |-> response.articles[i].url]

\* a reader opens the feed: a cached dataset and a limit, nothing loaded yet
ScrollEntry ==
  \E n \in 0..MaxData, l \in ScrollLimits :
    scroll = [pc |-> "paging", data |-> Dataset(n), limit |-> l, offset |-> 0,
              shown |-> <<>>, pages |-> 0, last |-> NoResponse, lastOffset |-> 0]

\* the reader requests the page at its offset and steps the offset by limit
ScrollNext ==
  /\ scroll.pc = "paging"
  /\ LET response == HitResponse(scroll.data, parseOffset(<<scroll.offset>>),
                                 parseLimit(<<scroll.limit>>))
     IN  scroll' = [scroll EXCEPT
                      !.shown = @ \o PageUrls(response),
                      !.pages = @ + 1,
                      !.last = response,
                      !.lastOffset = scroll.offset,
                      !.offset = @ + scroll.limit,
                      !.pc = IF response.hasMore THEN "paging" ELSE "done"]
  /\ UNCHANGED <<dedupVars, feedVars, client, pipe, pageReq, scorer>>

\* a request for the page at an arbitrary offset
ScrollProbe(o) ==
  /\ scroll.pc = "done"
  /\ scroll' = [scroll EXCEPT
                  !.last = HitResponse(scroll.data, parseOffset(<<o>>),
                                       parseLimit(<<scroll.limit>>)),
                  !.lastOffset = o,
                  !.pc = "probed"]
  /\ UNCHANGED <<dedupVars, feedVars, client, pipe, pageReq, scorer>>

NextScroll ==
  \/ ScrollNext
  \/ \E o \in 0..(MaxData + 2) : ScrollProbe(o)

\* ------------------------------------- the raw limit and offset parameters
\* a JavaScript number: << n >> is the integer n, << >> is NaN
NaN == << >>
Num(n) == << n >>

WhiteSpace == {" "}
DigitValue ==
  [c \in {"0", "1", "2", "3", "4", "5", "6", "7", "8", "9", "a", "b", "c", "d", "e", "f"} |->
     CASE c = "0" -> 0 [] c = "1" -> 1 [] c = "2" -> 2 [] c = "3" -> 3
       [] c = "4" -> 4 [] c = "5" -> 5 [] c = "6" -> 6 [] c = "7" -> 7
       [] c = "8" -> 8 [] c = "9" -> 9 [] c = "a" -> 10 [] c = "b" -> 11
       [] c = "c" -> 12 [] c = "d" -> 13 [] c = "e" -> 14 [] c = "f" -> 15]
IsDigitOf(c, radix) == c \in DOMAIN DigitValue /\ DigitValue[c] < radix

RECURSIVE TrimStart(_)
TrimStart(str) ==
  IF Len(str) > 0 /\ Head(str) \in WhiteSpace THEN TrimStart(Tail(str)) ELSE str

\* the longest prefix of str made of digits of the radix
RECURSIVE DigitsPrefix(_, _)
DigitsPrefix(str, radix) ==
  IF Len(str) > 0 /\ IsDigitOf(Head(str), radix)
  THEN <<Head(str)>> \o DigitsPrefix(Tail(str), radix)
  ELSE <<>>

RECURSIVE DigitsValue(_, _, _)
DigitsValue(digits, radix, acc) ==
  IF Len(digits) = 0 THEN acc
  ELSE DigitsValue(Tail(digits), radix, acc * radix + DigitValue[Head(digits)])

\* parseInt(string) without a radix: leading white space, a sign, 0x for
\* hexadecimal, then the digits up to the first other character; NaN if none
parseInt(string) ==
  LET trimmed == TrimStart(string)
      signed == Len(trimmed) > 0 /\ Head(trimmed) \in {"+", "-"}
      sign == IF Len(trimmed) > 0 /\ Head(trimmed) = "-" THEN 0 - 1 ELSE 1
      unsigned == IF signed THEN Tail(trimmed) ELSE trimmed
      hex == Len(unsigned) >= 2 /\ unsigned[1] = "0" /\ unsigned[2] \in {"x", "X"}
      radix == IF hex THEN 16 ELSE 10
      body == IF hex THEN Tail(Tail(unsigned)) ELSE unsigned
      digits == DigitsPrefix(body, radix)
  IN  IF Len(digits) = 0 THEN NaN ELSE Num(sign * DigitsValue(digits, radix, 0))

\* Math.min, Math.max and + on numbers that may be NaN
MathMin(a, b) == IF a = NaN \/ b = NaN THEN NaN ELSE Num(Min2(a[1], b[1]))
MathMax(a, b) == IF a = NaN \/ b = NaN THEN NaN ELSE Num(Max2(a[1], b[1]))
Plus(a, b) == IF a = NaN \/ b = NaN THEN NaN ELSE Num(a[1] + b[1])
\* ToIntegerOrInfinity, applied by slice to its arguments
ToInteger(a) == IF a = NaN THEN 0 ELSE a[1]

\* searchParams.get(name) || fallback: << >> is null, << str >> the string str
GetOr(raw, fallback) == IF raw = << >> \/ raw[1] = << >> THEN fallback ELSE raw[1]

\* const limit, const offset
limitOf(raw) == MathMin(parseInt(GetOr(raw, <<"1", "0">>)), Num(50))
offsetOf(raw) == MathMax(Num(0), parseInt(GetOr(raw, <<"0">>)))

\* data.slice(offset, offset + limit)
pageOf(data, offset, limit) ==
  SliceJs(data, ToInteger(offset), ToInteger(Plus(offset, limit)))

\* the values of the limit and offset parameters of a request
RawPool ==
  {<< >>, << << >> >>, << <<"0">> >>, << <<"2">> >>, << <<"5", "1">> >>,
   << <<"-", "1">> >>, << <<"-", "3">> >>, << <<"a", "b">> >>, << <<"2", "x">> >>,
   << <<" ", "3">> >>, << <<"+", "1">> >>, << <<"0", "x", "1", "f">> >>,
   << <<"1", ".", "5">> >>}
\* the sizes of the dataset that the unfiltered recent tier holds
PageDataSizes == {0, 3, 52}
ServePaths == {"hit", "rebuild"}

\* a request with its raw parameters arrives; the dataset is what getCached
\* returns on the hit path and what the rebuild assembles on the other
PageEntry ==
  \E n \in PageDataSizes, rawLimit \in RawPool, rawOffset \in RawPool :
    pageReq = [pc |-> "arrived", data |-> Dataset(n),
            rawLimit |-> rawLimit, rawOffset |-> rawOffset]

\* GET, recent tier: the parameters are parsed and the page is cut out of the
\* cached dataset (hit) or of balancedFeed (rebuild)
PageServe(path) ==
  /\ pageReq.pc = "arrived"
  /\ LET limit == limitOf(pageReq.rawLimit)
         offset == offsetOf(pageReq.rawOffset)
     IN  pageReq' = [pc |-> "served", data |-> pageReq.data,
                  rawLimit |-> pageReq.rawLimit, rawOffset |-> pageReq.rawOffset,
                  limit |-> limit, offset |-> offset,
                  articles |-> pageOf(pageReq.data, offset, limit),
                  cached |-> (path = "hit")]
  /\ UNCHANGED <<dedupVars, feedVars, scroll, client, pipe, scorer>>

NextParams == \E path \in ServePaths : PageServe(path)

\* ------------------------------------------------- the feed page (client)
\* the body of the response of fetchHistoricalArticles over the matching rows
\* in query order (skip: offset, take: limit, count)
HistoricalResponse(rows, offset, limit) ==
  LET page == SliceJs(rows, offset, offset + limit)
  IN  [success |-> TRUE,
       articles |-> [i \in 1..Len(page) |-> WithSection(page[i], "historical")],
       count |-> Len(page),
       total |-> Len(rows),
       hasMore |-> offset + limit < Len(rows),
       cached |-> FALSE]

\* limit=10 of the request URL, and the step of the recent offset
PageSize == 10
\* the URLs of MOCK_ARTICLES
MockUrls == <<-1, -2, -3>>

\* what the server holds while the page is open: the recent feed and the rows
\* older than the window, in query order; an article that has aged out of the
\* window since the feed was cached is in both
RecentSizes == {0, 3, 10, 12}
HistorySizes == {0, 4, 11}
Overlaps == {0, 2}
HistoryDataset(first, m) ==
  [i \in 1..m |-> [url |-> first + i - 1, importanceScore |-> 50,
                   category |-> "research", isGithubTrending |-> FALSE,
                   githubStars |-> 0, publishedAt |-> 0]]

NoFlight == [newOffset |-> 0, append |-> FALSE, fetchHistorical |-> FALSE]
Flight(newOffset, append, fetchHistorical) ==
  [newOffset |-> newOffset, append |-> append, fetchHistorical |-> fetchHistorical]
NoData == [success |-> FALSE, tier |-> "none", hasMore |-> FALSE, count |-> 0]

\* the page right after mounting: the state of useState, and the initial
\* fetchArticles(0, false) in flight
ClientEntry ==
  \E n \in RecentSizes, m \in HistorySizes, k \in Overlaps :
    /\ k <= n
    /\ client = [pc |-> "fetching", flight |-> Flight(0, FALSE, FALSE),
                 articles |-> <<>>, loading |-> TRUE, error |-> FALSE,
                 offset |-> 0, hasMore |-> TRUE, loadingMore |-> FALSE,
                 totalArticles |-> 0, inHistoricalMode |-> FALSE,
                 historicalOffset |-> 0, isRefreshing |-> FALSE,
                 recent |-> Dataset(n), history |-> HistoryDataset(n - k + 1, m),
                 last |-> NoData, lastDropped |-> 0]

IsNewUrl(prev, u) == \A i \in 1..Len(prev) : prev[i] # u

\* the page appended without the filter on existingUrls
appendPageNoFilter(prev, page) == prev \o page

\* setArticles on append: [...prev, ...newArticles]
appendPage(prev, page) ==
  LET keep == {i \in 1..Len(page) : IsNewUrl(prev, page[i])}
      RECURSIVE filtered(_)
      filtered(i) ==
        IF i > Len(page) THEN <<>>
        ELSE (IF i \in keep THEN <<page[i]>> ELSE <<>>) \o filtered(i + 1)
  IN  prev \o filtered(1)

\* the response the server gives to the request in flight
ServerData(c) ==
  IF c.flight.fetchHistorical
  THEN HistoricalResponse(c.history, parseOffset(<<c.flight.newOffset>>),
                          parseLimit(<<PageSize>>))
  ELSE HitResponse(c.recent, parseOffset(<<c.flight.newOffset>>),
                   parseLimit(<<PageSize>>))

\* the state fetchArticles leaves when it falls back to the mock data
WithMock(c) ==
  [c EXCEPT !.articles = MockUrls, !.hasMore = FALSE,
            !.totalArticles = Len(MockUrls)]

\* the state fetchArticles leaves after the branch that uses the API data
WithData(c, data) ==
  LET f == c.flight
      shown == IF f.append THEN appendPage(c.articles, PageUrls(data))
               ELSE PageUrls(data)
  IN  IF f.fetchHistorical
      THEN [c EXCEPT !.articles = shown,
                     !.hasMore = data.hasMore,
                     !.historicalOffset = f.newOffset + Len(data.articles)]
      ELSE IF ~data.hasMore
      THEN [c EXCEPT !.articles = shown,
                     !.totalArticles = data.total,
                     !.offset = f.newOffset,
                     !.inHistoricalMode = TRUE,
                     !.hasMore = TRUE,
                     !.historicalOffset = 0]
      ELSE [c EXCEPT !.articles = shown,
                     !.hasMore = data.hasMore,
                     !.totalArticles = data.total,
                     !.offset = f.newOffset]

\* fetchArticles from the arrival of the response to the end of finally
AfterFetch(c, ok) ==
  LET f == c.flight
      data == ServerData(c)
      initial == f.newOffset = 0 /\ ~f.fetchHistorical
      body == IF ok
              THEN IF data.success /\ (Len(data.articles) > 0 \/ f.newOffset > 0
                                        \/ f.fetchHistorical)
                   THEN WithData(c, data)
                   ELSE IF initial THEN WithMock(c) ELSE c
              ELSE IF initial THEN WithMock(c) ELSE [c EXCEPT !.error = TRUE]
  IN  [body EXCEPT !.loading = IF initial THEN FALSE ELSE @,
                   !.loadingMore = IF initial THEN @ ELSE FALSE,
                   !.isRefreshing = FALSE,
                   !.pc = "ready",
                   !.flight = NoFlight,
                   !.last = IF ok
                            THEN [success |-> data.success,
                                  tier |-> IF f.fetchHistorical THEN "historical"
                                           ELSE "recent",
                                  hasMore |-> data.hasMore, count |-> data.count]
                            ELSE NoData,
                   !.lastDropped = IF ok /\ f.append
                                   THEN data.count - (Len(body.articles) - Len(c.articles))
                                   ELSE 0]

\* the response of the request in flight arrives: HTTP 200 with the body of the
\* route, or a failure (network error, HTTP 500)
ClientReceive(ok) ==
  /\ client.pc = "fetching"
  /\ client' = AfterFetch(client, ok)
  /\ UNCHANGED <<dedupVars, feedVars, scroll, pipe, pageReq, scorer>>

\* the IntersectionObserver callback and window.__loadMore
ClientLoadMore ==
  /\ client.pc = "ready"
  /\ client.hasMore
  /\ ~client.loadingMore
  /\ ~client.isRefreshing
  /\ client' = [client EXCEPT
                  !.pc = "fetching",
                  !.loadingMore = TRUE,
                  !.flight = IF client.inHistoricalMode
                             THEN Flight(client.historicalOffset, TRUE, TRUE)
                             ELSE Flight(client.offset + PageSize, TRUE, FALSE)]
  /\ UNCHANGED <<dedupVars, feedVars, scroll, pipe, pageReq, scorer>>

\* handleRefresh when POST /api/refresh answers success: reset and re-fetch
ClientRefresh ==
  /\ client.pc = "ready"
  /\ ~client.isRefreshing
  /\ client' = [client EXCEPT
                  !.pc = "fetching",
                  !.isRefreshing = TRUE,
                  !.articles = <<>>,
                  !.offset = 0,
                  !.hasMore = TRUE,
                  !.totalArticles = 0,
                  !.inHistoricalMode = FALSE,
                  !.historicalOffset = 0,
                  !.loading = TRUE,
                  !.flight = Flight(0, FALSE, FALSE)]
  /\ UNCHANGED <<dedupVars, feedVars, scroll, pipe, pageReq, scorer>>

NextClient ==
  \/ \E ok \in BOOLEAN : ClientReceive(ok)
  \/ ClientLoadMore
  \/ ClientRefresh

\* ------------------- GET /api/articles/today: the historical tier, failures
StoreError == "store error"

\* the body of the 500 response with success: true
errorBodyAsSuccess(message) ==
  [success |-> TRUE, articles |-> <<>>, count |-> 0, error |-> message]

\* the body of the 500 response of the catch block of GET
errorBody(message) ==
  [success |-> FALSE, articles |-> <<>>, count |-> 0, error |-> message]

\* the body of the 500 response of the catch block of fetchHistoricalArticles
historicalErrorBody(message) ==
  [success |-> FALSE, articles |-> <<>>, count |-> 0, hasMore |-> FALSE,
   error |-> message]

\* fetchHistoricalArticles: its findMany reads the table
HistoricalFind(r) ==
  /\ req[r].pc = "historical"
  /\ req' = [req EXCEPT ![r].pc = "counting",
                        ![r].results = <<findHistorical(store, req[r].threeDaysAgo,
                                                        req[r].languages,
                                                        req[r].frameworks)>>]
  /\ UNCHANGED <<today, store, cache, stats, pass, counts, lastResp, freshPass>>
  /\ UNCHANGED <<dedupVars, scroll, client, pipe, pageReq, scorer, recording>>

\* fetchHistoricalArticles: its count reads the table, which has not changed
\* since the findMany, and the response is built
HistoricalCount(r) ==
  /\ req[r].pc = "counting"
  /\ lastResp' = HistoricalResponse(req[r].results[1], req[r].offset, req[r].limit)
  /\ req' = [req EXCEPT ![r] = IdleRequest]
  /\ UNCHANGED <<today, store, cache, stats, pass, counts, freshPass>>
  /\ UNCHANGED <<dedupVars, scroll, client, pipe, pageReq, scorer, recording>>

\* one of the queries of the rebuild rejects, and with it Promise.all
QueryRejects(r) ==
  /\ req[r].pc = "querying"
  /\ req' = [req EXCEPT ![r].pc = "caught", ![r].results = <<StoreError>>]
  /\ UNCHANGED <<today, store, cache, stats, pass, counts, lastResp, freshPass>>
  /\ UNCHANGED <<dedupVars, scroll, client, pipe, pageReq, scorer, recording>>

\* the findMany or the count of fetchHistoricalArticles rejects
HistoricalRejects(r) ==
  /\ req[r].pc \in {"historical", "counting"}
  /\ req' = [req EXCEPT ![r].pc = "caughtHistorical", ![r].results = <<StoreError>>]
  /\ UNCHANGED <<today, store, cache, stats, pass, counts, lastResp, freshPass>>
  /\ UNCHANGED <<dedupVars, scroll, client, pipe, pageReq, scorer, recording>>

\* the catch block of GET
CatchError(r) ==
  /\ req[r].pc = "caught"
  /\ lastResp' = errorBody(req[r].results[1])
  /\ req' = [req EXCEPT ![r] = IdleRequest]
  /\ UNCHANGED <<today, store, cache, stats, pass, counts, freshPass>>
  /\ UNCHANGED <<dedupVars, scroll, client, pipe, pageReq, scorer, recording>>

\* the catch block of fetchHistoricalArticles
HistoricalCatch(r) ==
  /\ req[r].pc = "caughtHistorical"
  /\ lastResp' = historicalErrorBody(req[r].results[1])
  /\ req' = [req EXCEPT ![r] = IdleRequest]
  /\ UNCHANGED <<today, store, cache, stats, pass, counts, freshPass>>
  /\ UNCHANGED <<dedupVars, scroll, client, pipe, pageReq, scorer, recording>>

NextRoute ==
  \/ \E r \in RequestSlots, params \in RouteParams : RequestStart(r, params)
  \/ \E r \in RequestSlots : QueryBucket(r)
  \/ \E r \in RequestSlots : Assemble(r)
  \/ \E r \in RequestSlots : HistoricalFind(r)
  \/ \E r \in RequestSlots : HistoricalCount(r)
  \/ \E r \in RequestSlots : QueryRejects(r)
  \/ \E r \in RequestSlots : HistoricalRejects(r)
  \/ \E r \in RequestSlots : CatchError(r)
  \/ \E r \in RequestSlots : HistoricalCatch(r)
  \/ Midnight

\* ------------------------------------------------ the pipeline (runPipeline)
\* the failures of OpenAI and database calls in one behaviour
MaxFaults == 1
\* how often the pipeline is run
Runs == {1, 2}

\* the label the scoring prompt asks for with a score
LabelOfScore(score) ==
  IF score >= 95 THEN "BREAKING"
  ELSE IF score >= 75 THEN "MAJOR"
  ELSE IF score >= 55 THEN "NOTABLE"
  ELSE IF score >= 40 THEN "INFO"
  ELSE "NOISE"

\* the JSON object that callOpenAI returns for an article: "graded" follows the
\* guidelines of the prompt, "example" repeats the label and the category of
\* the example object in the prompt with a score of its own
LlmVariants == {"graded", "example"}
LlmAnswer(variant, article) ==
  IF variant = "graded"
  THEN [score |-> ScoreOf(article), label |-> LabelOfScore(ScoreOf(article)),
        category |-> "community"]
  ELSE [score |-> 40 + (ScoreOf(article) \div 2), label |-> "MAJOR",
        category |-> "library"]

\* scoreArticle: JSON.parse(response) as ScoringResult, null if anything threw
scoreArticle(variant, article, fails) ==
  IF fails THEN << >> ELSE << LlmAnswer(variant, article) >>

\* batchResults.forEach((result, index) => { if (result) results.set(...) })
RECURSIVE SetResults(_, _, _, _)
SetResults(results, batch, batchResults, index) ==
  IF index > Len(batch) THEN results
  ELSE SetResults(IF batchResults[index] # << >>
                  THEN MapSet(results, batch[index].url, batchResults[index][1])
                  ELSE results,
                  batch, batchResults, index + 1)

\* a forEach that stores nothing of a batch in which one result is null
SetResultsAllOrNothing(results, batch, batchResults) ==
  IF \E index \in 1..Len(batch) : batchResults[index] = << >> THEN results
  ELSE SetResults(results, batch, batchResults, 1)

\* one iteration of the batch loop of scoreArticles or summarizeArticles, after
\* Promise.all has resolved
SetBatchResults(results, batch, batchResults) ==
  SetResults(results, batch, batchResults, 1)

\* articles.slice(i, i + batchSize)
Batch(as, i, batchSize) == SubSeq(as, i + 1, Min2(i + batchSize, Len(as)))

\* the calls of a batch that may fail: the first and the last of a full batch,
\* as far as the batch has them and the fault budget allows
FaultyCalls == {1, DefaultBatchSize}
FailureSets(batch, faults) ==
  {failed \in SUBSET (FaultyCalls \cap (1..Len(batch))) :
     Cardinality(failed) + faults <= MaxFaults}

\* the row that the create branch of the upsert writes
CreatedRow(article, scoring, summarized) ==
  [url |-> article.url, title |-> article.title, category |-> scoring.category,
   importanceScore |-> scoring.score, importanceLabel |-> scoring.label,
   summarized |-> summarized]

\* an upsert that takes the create branch whether or not the URL has a row
upsertRowAlwaysCreate(table, article, scoring, summarized) ==
  Append(table, CreatedRow(article, scoring, summarized))

\* prisma.article.upsert({ where: { url }, create, update })
upsertRow(table, article, scoring, summarized) ==
  IF \E j \in 1..Len(table) : table[j].url = article.url
  THEN LET j == CHOOSE k \in 1..Len(table) : table[k].url = article.url
       IN  [table EXCEPT ![j] = [@ EXCEPT !.summarized = summarized,
                                         !.importanceScore = scoring.score,
                                         !.importanceLabel = scoring.label]]
  ELSE Append(table, CreatedRow(article, scoring, summarized))

\* the rows that the loop over duplicates.get(article.url) || [] creates
DuplicateRows(article, dups) ==
  [d \in 1..Len(dups) |-> [canonicalUrl |-> article.url, duplicateUrl |-> dups[d].url]]

SaveError(article) == [msg |-> "Failed to save article", title |-> article.title]
FatalError(msg) == [msg |-> msg, title |-> << >>]

\* the return value of the outer catch block with the errors array untouched
fatalResultWithoutMessage(errors, error) ==
  [success |-> FALSE, articlesProcessed |-> 0, articlesSaved |-> 0,
   errors |-> errors]

\* the return value of the outer catch block
fatalResult(errors, error) ==
  [success |-> FALSE, articlesProcessed |-> 0, articlesSaved |-> 0,
   errors |-> Append(errors, FatalError(error))]

NoResult == [success |-> FALSE, articlesProcessed |-> -1, articlesSaved |-> -1,
             errors |-> << >>]

\* runPipeline at its entry for the given run number; the tables and the
\* fault count outlive the run
PipeStart(run, table, dupTable, faults) ==
  [pc |-> "start", run |-> run,
   useMockData |-> TRUE, githubFails |-> FALSE, hnFails |-> FALSE,
   llm |-> "graded", threw |-> FALSE,
   i |-> 0, scorings |-> EmptyMap, failedScoring |-> {},
   toSummarize |-> << >>, summaries |-> EmptyMap,
   enrichedArticles |-> << >>, savedCount |-> 0, errors |-> << >>,
   failedSaving |-> << >>, result |-> NoResult,
   table |-> table, dupTable |-> dupTable, faults |-> faults]

PipelineEntry == pipe = PipeStart(0, << >>, << >>, 0)

\* runPipeline up to the length test on allArticles: the six adapters are
\* awaited by one Promise.all. fetchGitHubData and fetchHackerNewsData catch
\* their errors and return no articles, fetchRedditData and fetchArxivData
\* return no articles, fetchRSSData returns no articles under USE_MOCK_DATA
\* and throws otherwise
PipeFetch(github, hn, githubFails, hnFails, useMockData, llm) ==
  /\ pipe.pc \in {"start", "done"}
  /\ pipe.run + 1 \in Runs
  /\ LET p == [PipeStart(pipe.run + 1, pipe.table, pipe.dupTable, pipe.faults)
                 EXCEPT !.useMockData = useMockData, !.githubFails = githubFails,
                        !.hnFails = hnFails, !.llm = llm]
         allArticles == (IF githubFails THEN << >> ELSE github)
                          \o (IF hnFails THEN << >> ELSE hn)
     IN  IF ~useMockData
         THEN /\ pipe' = [p EXCEPT !.pc = "done", !.threw = TRUE,
                            !.errors = Append(p.errors, FatalError("rss")),
                            !.result = fatalResult(p.errors, "rss")]
              /\ articles' = << >>
         ELSE IF Len(allArticles) = 0
         THEN /\ pipe' = [p EXCEPT !.pc = "done",
                            !.result = [success |-> TRUE, articlesProcessed |-> 0,
                                        articlesSaved |-> 0, errors |-> << >>]]
              /\ articles' = << >>
         ELSE /\ pipe' = [p EXCEPT !.pc = "dedup"]
              /\ articles' = allArticles
  /\ pos' = 0
  /\ canonical' = << >>
  /\ duplicates' = EmptyMap
  /\ members' = << >>
  /\ lastMerge' = NoMerge
  /\ UNCHANGED <<feedVars, scroll, client, pageReq, scorer>>

\* deduplicateArticles(allArticles), one iteration of its loop
PipeDedupStep ==
  /\ pipe.pc = "dedup"
  /\ DedupStep

\* a TypeError leaves deduplicateArticles and is caught by the outer catch
PipeDedupRaise ==
  /\ pipe.pc = "dedup"
  /\ pos < Len(articles)
  /\ DedupThrows(articles[pos + 1], canonical)
  /\ lastMerge' = [kind |-> "throw", slot |-> 0]
  /\ pipe' = [pipe EXCEPT !.pc = "done", !.threw = TRUE,
                !.errors = Append(pipe.errors, FatalError("TypeError")),
                !.result = fatalResult(pipe.errors, "TypeError")]
  /\ UNCHANGED <<articles, pos, canonical, duplicates, members>>
  /\ UNCHANGED <<feedVars, scroll, client, pageReq, scorer>>

\* deduplicateArticles returns and scoreArticles(canonical) starts its loop
PipeScoreStart ==
  /\ pipe.pc = "dedup"
  /\ dedupReturned
  /\ pipe' = [pipe EXCEPT !.pc = "score", !.i = 0]
  /\ UNCHANGED <<dedupVars, feedVars, scroll, client, pageReq, scorer>>

\* scoreArticles: one batch is scored, the calls of `failed` return null
ScoreBatch(failed) ==
  /\ pipe.pc = "score"
  /\ LET batch == Batch(canonical, pipe.i, DefaultBatchSize)
         batchResults == [index \in 1..Len(batch) |->
                            scoreArticle(pipe.llm, batch[index], index \in failed)]
     IN  /\ failed \in FailureSets(batch, pipe.faults)
         /\ pipe' = [pipe EXCEPT
               !.scorings = SetBatchResults(pipe.scorings, batch, batchResults),
               !.failedScoring = @ \cup {batch[index].url : index \in failed},
               !.faults = @ + Cardinality(failed),
               !.i = @ + DefaultBatchSize,
               !.pc = IF pipe.i + DefaultBatchSize < Len(canonical)
                      THEN "scorePause" ELSE "scored"]
  /\ UNCHANGED <<dedupVars, feedVars, scroll, client, pageReq, scorer>>

\* the 500 ms between two batches of scoreArticles have passed
ScorePause ==
  /\ pipe.pc = "scorePause"
  /\ pipe' = [pipe EXCEPT !.pc = "score"]
  /\ UNCHANGED <<dedupVars, feedVars, scroll, client, pageReq, scorer>>

\* summarizeArticles(canonical, scorings) up to its loop
SummarizeStart ==
  /\ pipe.pc = "scored"
  /\ LET Wanted(article) ==
           /\ article.url \in DOMAIN pipe.scorings
           /\ pipe.scorings[article.url].score >= 40
         toSummarize == SelectSeq(canonical, Wanted)
     IN  pipe' = [pipe EXCEPT !.toSummarize = toSummarize, !.i = 0,
                    !.pc = IF Len(toSummarize) = 0 THEN "summarized" ELSE "summarize"]
  /\ UNCHANGED <<dedupVars, feedVars, scroll, client, pageReq, scorer>>

\* summarizeArticles: one batch is summarized, the calls of `failed` return null
SummarizeBatch(failed) ==
  /\ pipe.pc = "summarize"
  /\ LET batch == Batch(pipe.toSummarize, pipe.i, DefaultBatchSize)
         batchResults == [index \in 1..Len(batch) |->
                            IF index \in failed THEN << >> ELSE << TRUE >>]
     IN  /\ failed \in FailureSets(batch, pipe.faults)
         /\ pipe' = [pipe EXCEPT
               !.summaries = SetBatchResults(pipe.summaries, batch, batchResults),
               !.faults = @ + Cardinality(failed),
               !.i = @ + DefaultBatchSize,
               !.pc = IF pipe.i + DefaultBatchSize < Len(pipe.toSummarize)
                      THEN "summarizePause" ELSE "summarized"]
  /\ UNCHANGED <<dedupVars, feedVars, scroll, client, pageReq, scorer>>

\* the 500 ms between two batches of summarizeArticles have passed
SummarizePause ==
  /\ pipe.pc = "summarizePause"
  /\ pipe' = [pipe EXCEPT !.pc = "summarize"]
  /\ UNCHANGED <<dedupVars, feedVars, scroll, client, pageReq, scorer>>

\* canonical.map(...).filter(Boolean): the articles that have a scoring
PipeEnrich ==
  /\ pipe.pc = "summarized"
  /\ LET Scored(article) == article.url \in DOMAIN pipe.scorings
         scored == SelectSeq(canonical, Scored)
     IN  pipe' = [pipe EXCEPT
           !.enrichedArticles =
              [k \in 1..Len(scored) |->
                 [article |-> scored[k],
                  scoring |-> pipe.scorings[scored[k].url],
                  summary |-> scored[k].url \in DOMAIN pipe.summaries]],
           !.i = 0, !.savedCount = 0, !.pc = "save"]
  /\ UNCHANGED <<dedupVars, feedVars, scroll, client, pageReq, scorer>>

\* a catch block of the save loop that leaves the loop
saveFailedAborts(p, article) ==
  [p EXCEPT !.errors = Append(@, SaveError(article)),
            !.failedSaving = Append(@, p.i + 1),
            !.faults = @ + 1,
            !.i = Len(p.enrichedArticles)]

\* the catch block of one iteration of the save loop, and on to the next item
saveFailed(p, article) ==
  [p EXCEPT !.errors = Append(@, SaveError(article)),
            !.failedSaving = Append(@, p.i + 1),
            !.faults = @ + 1,
            !.i = @ + 1]

SaveOutcomes == {"saved", "upsertThrows", "createDuplicateThrows"}

\* one iteration of the save loop: the upsert, the articleDuplicate rows,
\* savedCount++, or the catch block of the iteration
SaveItem(outcome) ==
  /\ pipe.pc = "save"
  /\ pipe.i < Len(pipe.enrichedArticles)
  /\ LET item == pipe.enrichedArticles[pipe.i + 1]
         articleDuplicates == MapGet(duplicates, item.article.url)
         saved == upsertRow(pipe.table, item.article, item.scoring, item.summary)
     IN  CASE outcome = "saved" ->
                pipe' = [pipe EXCEPT
                  !.table = saved,
                  !.dupTable = @ \o DuplicateRows(item.article, articleDuplicates),
                  !.savedCount = @ + 1,
                  !.i = @ + 1]
           [] outcome = "upsertThrows" ->
                /\ pipe.faults < MaxFaults
                /\ pipe' = saveFailed(pipe, item.article)
           [] outcome = "createDuplicateThrows" ->
                /\ pipe.faults < MaxFaults
                /\ Len(articleDuplicates) > 0
                /\ pipe' = [saveFailed(pipe, item.article) EXCEPT !.table = saved]
  /\ UNCHANGED <<dedupVars, feedVars, scroll, client, pageReq, scorer>>

\* the return after the save loop
PipeReturn ==
  /\ pipe.pc = "save"
  /\ pipe.i = Len(pipe.enrichedArticles)
  /\ pipe' = [pipe EXCEPT
       !.pc = "done",
       !.result = [success |-> TRUE, articlesProcessed |-> Len(canonical),
                   articlesSaved |-> pipe.savedCount, errors |-> pipe.errors]]
  /\ UNCHANGED <<dedupVars, feedVars, scroll, client, pageReq, scorer>>

NextPipeline ==
  \/ \E github \in GithubResults, hn \in HnResults, githubFails \in BOOLEAN,
        hnFails \in BOOLEAN, useMockData \in BOOLEAN, llm \in LlmVariants :
       PipeFetch(github, hn, githubFails, hnFails, useMockData, llm)
  \/ PipeDedupStep
  \/ PipeDedupRaise
  \/ PipeScoreStart
  \/ \E failed \in SUBSET FaultyCalls : ScoreBatch(failed)
  \/ ScorePause
  \/ SummarizeStart
  \/ \E failed \in SUBSET FaultyCalls : SummarizeBatch(failed)
  \/ SummarizePause
  \/ PipeEnrich
  \/ \E outcome \in SaveOutcomes : SaveItem(outcome)
  \/ PipeReturn

\* ------------------------------------------------ scoreArticles, its loop
\* the numbers of articles and the batch sizes scoreArticles is called with
ScorerSizes == {0, 1, 3, 4, 5}
BatchSizes == {1, 2, 3, 10}

\* a pause after every batch, the last one included
pauseAlways(i, batchSize, length) == TRUE

\* if (i + batchSize < articles.length)
pauseFollows(i, batchSize, length) == i + batchSize < length

\* scoreArticles(articles, batchSize) has been called: results is empty, i = 0
ScorerEntry ==
  \E n \in ScorerSizes, batchSize \in BatchSizes :
    scorer = [pc |-> "loop", articles |-> [k \in 1..n |-> BatchItem(k)],
              batchSize |-> batchSize, i |-> 0, results |-> EmptyMap,
              batch |-> <<>>, pending |-> {}, batchResults |-> <<>>,
              groups |-> <<>>, pauses |-> 0, calls |-> [k \in 1..n |-> 0],
              paused |-> FALSE]

\* the loop test holds: the batch is sliced and batch.map starts one call of
\* scoreArticle per article of the batch
StartBatch ==
  /\ scorer.pc = "loop"
  /\ scorer.i < Len(scorer.articles)
  /\ LET batch == Batch(scorer.articles, scorer.i, scorer.batchSize)
         positions == [index \in 1..Len(batch) |-> scorer.i + index]
     IN  scorer' = [scorer EXCEPT
           !.pc = "awaiting",
           !.batch = batch,
           !.pending = 1..Len(batch),
           !.batchResults = [index \in 1..Len(batch) |-> << >>],
           !.groups = Append(@, positions),
           !.calls = [k \in DOMAIN @ |->
                        IF k \in Range(positions) THEN @[k] + 1 ELSE @[k]],
           !.paused = FALSE]
  /\ UNCHANGED <<dedupVars, feedVars, scroll, client, pipe, pageReq>>

\* one call of scoreArticle of the batch resolves, with a result or with null
CallSettles(index, fails) ==
  /\ scorer.pc = "awaiting"
  /\ index \in scorer.pending
  /\ scorer' = [scorer EXCEPT
       !.pending = @ \ {index},
       !.batchResults[index] = scoreArticle("graded", scorer.batch[index], fails)]
  /\ UNCHANGED <<dedupVars, feedVars, scroll, client, pipe, pageReq>>

\* Promise.all resolves: the results are stored, and the pause starts or the
\* loop steps to the next batch
BatchJoined ==
  /\ scorer.pc = "awaiting"
  /\ scorer.pending = {}
  /\ LET pause == pauseFollows(scorer.i, scorer.batchSize, Len(scorer.articles))
     IN  scorer' = [scorer EXCEPT
           !.results = SetBatchResults(@, scorer.batch, scorer.batchResults),
           !.pc = IF pause THEN "pausing" ELSE "loop",
           !.i = IF pause THEN @ ELSE @ + scorer.batchSize]
  /\ UNCHANGED <<dedupVars, feedVars, scroll, client, pipe, pageReq>>

\* the timer of 500 ms fires and the loop steps to the next batch
PauseElapsed ==
  /\ scorer.pc = "pausing"
  /\ scorer' = [scorer EXCEPT
       !.pc = "loop", !.i = @ + scorer.batchSize,
       !.pauses = @ + 1, !.paused = TRUE]
  /\ UNCHANGED <<dedupVars, feedVars, scroll, client, pipe, pageReq>>

\* the loop test fails: return results
ScorerReturn ==
  /\ scorer.pc = "loop"
  /\ scorer.i >= Len(scorer.articles)
  /\ scorer' = [scorer EXCEPT !.pc = "returned"]
  /\ UNCHANGED <<dedupVars, feedVars, scroll, client, pipe, pageReq>>

NextScorer ==
  \/ StartBatch
  \/ \E index \in 1..Len(scorer.batch), fails \in BOOLEAN : CallSettles(index, fails)
  \/ BatchJoined
  \/ PauseElapsed
  \/ ScorerReturn

\* ------------------------------------------------------------ specifications
InitDedup ==
  /\ articles \in SeqsUpTo(ArticlePool, MaxItems)
  /\ DedupEntry
  /\ FeedEntry
  /\ store = EmptyStore
  /\ ScrollIdle
  /\ ClientIdle
  /\ PipeIdle
  /\ PageIdle
  /\ ScorerIdle
  /\ recording = FALSE

NextDedup == DedupStep

SpecDedup == InitDedup /\ [][NextDedup]_vars

InitMalformed ==
  /\ articles \in SeqsUpTo(MalformedPool, MaxItems)
  /\ DedupEntry
  /\ FeedEntry
  /\ store = EmptyStore
  /\ ScrollIdle
  /\ ClientIdle
  /\ PipeIdle
  /\ PageIdle
  /\ ScorerIdle
  /\ recording = FALSE

NextMalformed ==
  \/ DedupStep
  \/ DedupRaise

SpecMalformed == InitMalformed /\ [][NextMalformed]_vars

InitFeed ==
  /\ articles = <<>>
  /\ DedupEntry
  /\ FeedEntry
  /\ store \in {EmptyStore, SeededStore}
  /\ ScrollIdle
  /\ ClientIdle
  /\ PipeIdle
  /\ PageIdle
  /\ ScorerIdle
  /\ recording = FALSE

SpecFeed == InitFeed /\ [][NextFeed]_vars

\* SpecFeed with the histories of the rebuilds kept
InitRebuild ==
  /\ articles = <<>>
  /\ DedupEntry
  /\ FeedEntry
  /\ store \in {EmptyStore, SeededStore}
  /\ ScrollIdle
  /\ ClientIdle
  /\ PipeIdle
  /\ PageIdle
  /\ ScorerIdle
  /\ recording = TRUE

SpecRebuild == InitRebuild /\ [][NextFeed]_vars

InitScroll ==
  /\ articles = <<>>
  /\ DedupEntry
  /\ FeedEntry
  /\ store = EmptyStore
  /\ ScrollEntry
  /\ ClientIdle
  /\ PipeIdle
  /\ PageIdle
  /\ ScorerIdle
  /\ recording = FALSE

SpecScroll == InitScroll /\ [][NextScroll]_vars

InitClient ==
  /\ articles = <<>>
  /\ DedupEntry
  /\ FeedEntry
  /\ store = EmptyStore
  /\ ScrollIdle
  /\ ClientEntry
  /\ PipeIdle
  /\ PageIdle
  /\ ScorerIdle
  /\ recording = FALSE

SpecClient == InitClient /\ [][NextClient]_vars

InitPipeline ==
  /\ articles = <<>>
  /\ DedupEntry
  /\ FeedEntry
  /\ store = EmptyStore
  /\ ScrollIdle
  /\ ClientIdle
  /\ PipelineEntry
  /\ PageIdle
  /\ ScorerIdle
  /\ recording = FALSE

SpecPipeline == InitPipeline /\ [][NextPipeline]_vars

InitParams ==
  /\ articles = <<>>
  /\ DedupEntry
  /\ FeedEntry
  /\ store = EmptyStore
  /\ ScrollIdle
  /\ ClientIdle
  /\ PipeIdle
  /\ PageEntry
  /\ ScorerIdle
  /\ recording = FALSE

SpecParams == InitParams /\ [][NextParams]_vars

InitScorer ==
  /\ articles = <<>>
  /\ DedupEntry
  /\ FeedEntry
  /\ store = EmptyStore
  /\ ScrollIdle
  /\ ClientIdle
  /\ PipeIdle
  /\ PageIdle
  /\ ScorerEntry
  /\ recording = FALSE

\* every call of the model settles (scoreArticle resolves with a result or,
\* from its catch block, with null) and the timer of the pause fires
SpecScorer == InitScorer /\ [][NextScorer]_vars /\ WF_vars(NextScorer)

InitRoute ==
  /\ articles = <<>>
  /\ DedupEntry
  /\ FeedEntry
  /\ store = RouteStore
  /\ ScrollIdle
  /\ ClientIdle
  /\ PipeIdle
  /\ PageIdle
  /\ ScorerIdle
  /\ recording = FALSE

SpecRoute == InitRoute /\ [][NextRoute]_vars

\* ------------------------------------------------------- dedup properties
\* what identifies an input item: everything but the backfilled discussion URLs
Core(a) == [url |-> a.url, title |-> a.title, score |-> a.score,
            githubRepo |-> a.githubRepo]

\* position within members[i] of the first member with the highest score
BestMember(i) ==
  CHOOSE k \in 1..Len(members[i]) :
    /\ \A l \in 1..Len(members[i]) :
         ScoreOf(articles[members[i][l]]) <= ScoreOf(articles[members[i][k]])
    /\ \A l \in 1..(k - 1) :
         ScoreOf(articles[members[i][l]]) < ScoreOf(articles[members[i][k]])

Count(seq, x) == Cardinality({k \in 1..Len(seq) : seq[k] = x})

\* C1: after deduplicateArticles returns, every canonical entry is the member
\* of its slot with the highest engagement score (absent score = 0), the
\* first-seen one among equals; two items with the same normalized URL yield
\* exactly one canonical entry.
CanonicalIsHighestScore ==
  dedupReturned =>
    /\ \A i \in 1..Len(canonical) :
         /\ Core(canonical[i]) = Core(articles[members[i][BestMember(i)]])
         /\ \A l \in 1..Len(members[i]) :
              ScoreOf(articles[members[i][l]]) <= ScoreOf(canonical[i])
    /\ (Len(articles) = 2 /\ normalizeUrl(articles[1].url) = normalizeUrl(articles[2].url))
         => Len(canonical) = 1

\* a slot whose canonical is a later member with a strictly higher score
WitnessLaterMemberWins ==
  /\ dedupReturned
  /\ \E i \in 1..Len(canonical) :
       /\ Len(members[i]) >= 2
       /\ BestMember(i) > 1
       /\ ScoreOf(canonical[i]) > ScoreOf(articles[members[i][1]])

\* C2: no two entries of the canonical output are duplicates of each other
\* (deduplicating the output again merges nothing).
CanonicalPairwiseDistinct ==
  dedupReturned =>
    \A i \in 1..Len(canonical) : \A j \in 1..Len(canonical) :
      i # j => ~areDuplicates(canonical[i], canonical[j])

DuplicatesAreMergedAway ==
  dedupReturned =>
    \A i \in 1..Len(canonical) :
      LET recorded == MapGet(duplicates, canonical[i].url)
          losers == [k \in 1..(Len(members[i]) - 1) |->
                       articles[members[i][IF k < BestMember(i) THEN k ELSE k + 1]]]
      IN  /\ Len(recorded) = Len(losers)
          /\ \A x \in Range(losers) : Count(recorded, x) = Count(losers, x)

\* the number of entries over all lists of the duplicates Map
RECURSIVE SumOfLengths(_, _)
SumOfLengths(map, keys) ==
  IF keys = {} THEN 0
  ELSE LET k == CHOOSE x \in keys : TRUE
       IN  Len(map[k]) + SumOfLengths(map, keys \ {k})
TotalDuplicates(map) == SumOfLengths(map, DOMAIN map)

\* C29: every input item is accounted for once. An empty input is returned
\* as an empty canonical list and an empty Map; an iteration either appends
\* its item as a new canonical slot or appends it to exactly one list of the
\* Map, it leaves every other slot and every other list as they are, and the
\* number of slots plus the number of list entries is the number of items
\* consumed
DedupAccountsForEveryItem ==
  /\ Len(articles) = 0 => (dedupReturned /\ canonical = <<>> /\ duplicates = EmptyMap)
  /\ [][pos' = pos + 1 =>
          LET article == articles[pos + 1]
          IN  /\ Len(canonical') + TotalDuplicates(duplicates') = pos'
              /\ \/ /\ canonical' = Append(canonical, article)
                    /\ duplicates' = duplicates
                 \/ /\ Len(canonical') = Len(canonical)
                    /\ DOMAIN duplicates \subseteq DOMAIN duplicates'
                    /\ \E k \in DOMAIN duplicates' :
                         /\ duplicates'[k] = Append(MapGet(duplicates, k), article)
                         /\ \A l \in (DOMAIN duplicates') \ {k} :
                              l \in DOMAIN duplicates /\ duplicates'[l] = duplicates[l]
                    /\ \E i \in 1..Len(canonical) :
                         \A j \in (1..Len(canonical)) \ {i} :
                           canonical'[j] = canonical[j]]_vars

\* three items went into one slot: the first created it and the two others
\* are in one list
WitnessTwoMergesIntoOneList ==
  /\ dedupReturned
  /\ Len(articles) = 3
  /\ Len(canonical) = 1
  /\ \E k \in DOMAIN duplicates : Len(duplicates[k]) = 2

\* C23: the result of a merge has the discussion URLs of the item that wins
\* the merge wherever that item has them, and the URL of the other item in a
\* field that the winner has not set
DiscussionUrlsOnlyBackfilled ==
  [][(pos' = pos + 1 /\ lastMerge'.kind = "merge") =>
       LET existing == canonical[lastMerge'.slot]
           article == articles[pos + 1]
           merged == canonical'[lastMerge'.slot]
           incomingWins == ScoreOf(article) > ScoreOf(existing)
           winner == IF incomingWins THEN article ELSE existing
           other == IF incomingWins THEN existing ELSE article
       IN  /\ merged.hnDiscussionUrl =
                IF winner.hnDiscussionUrl # "" THEN winner.hnDiscussionUrl
                ELSE other.hnDiscussionUrl
           /\ merged.redditDiscussionUrl =
                IF winner.redditDiscussionUrl # "" THEN winner.redditDiscussionUrl
                ELSE other.redditDiscussionUrl]_vars

\* the last iteration merged an item that has a discussion URL into a slot
\* whose item won and had none: the slot has the URL of the incoming item
WitnessDiscussionUrlBackfilled ==
  /\ pos > 0
  /\ lastMerge.kind = "merge"
  /\ articles[pos].hnDiscussionUrl # ""
  /\ canonical[lastMerge.slot].hnDiscussionUrl = articles[pos].hnDiscussionUrl
  /\ canonical[lastMerge.slot].url # articles[pos].url
  /\ ScoreOf(canonical[lastMerge.slot]) > ScoreOf(articles[pos])

\* -------------------------------------------------------- feed properties
Urls(as) == [i \in 1..Len(as) |-> as[i].url]

\* the URLs of data[o : o + l], written out index by index
ExpectedPage(data, o, l) ==
  [i \in 1..Max2(0, Min2(l, Len(data) - o)) |-> data[o + i].url]

\* C5: over a fixed cached dataset and a fixed limit, the page at offset o is
\* data[o : o+limit] and hasMore is o + limit < data.length; an offset at or
\* beyond the length gives an empty page, hasMore false and no error; the pages
\* from offset 0 in steps of limit until hasMore is false add up to the dataset
PagesPartitionTheDataset ==
  (scroll.pc # "idle" /\ (scroll.pages > 0 \/ scroll.pc = "probed")) =>
    LET o == scroll.lastOffset
        n == Len(scroll.data)
    IN  /\ scroll.last.success
        /\ PageUrls(scroll.last) = ExpectedPage(scroll.data, o, scroll.limit)
        /\ scroll.last.count = Len(scroll.last.articles)
        /\ scroll.last.hasMore = (o + scroll.limit < n)
        /\ (o >= n => scroll.last.articles = <<>> /\ ~scroll.last.hasMore)
        /\ (scroll.pc \in {"done", "probed"} => scroll.shown = Urls(scroll.data))

\* a reader went through at least three pages to the end of the dataset and
\* then asked for a page beyond the end
WitnessScrolledToEndAndBeyond ==
  /\ scroll.pc = "probed"
  /\ scroll.pages >= 3
  /\ Len(scroll.data) >= 5
  /\ scroll.lastOffset >= Len(scroll.data)

\* the six buckets in the order of the rebuild
BucketsInOrder(res) ==
  res[1] \o SelectSeq(res[2], IsLaunchLike) \o SelectSeq(res[2], IsOtherMajor)
    \o res[3] \o res[5] \o res[4]
\* a list without the entries whose URL an earlier entry has
RECURSIVE KeepFirstByUrl(_, _)
KeepFirstByUrl(as, seen) ==
  IF as = <<>> THEN <<>>
  ELSE IF Head(as).url \in seen THEN KeepFirstByUrl(Tail(as), seen)
  ELSE <<Head(as)>> \o KeepFirstByUrl(Tail(as), seen \cup {Head(as).url})

IsAssembleStep(r) == req[r].pc = "querying" /\ req'[r].pc = "idle"

\* C6: the feed a rebuild assembles and stores is critical, major/launch-like,
\* major/other, notable, trending, info, each in query order, without the items
\* whose URL an earlier bucket placed; no URL appears twice in it
FeedIsBucketsInOrderWithoutRepeats ==
  [][\A r \in RequestSlots :
       IsAssembleStep(r) =>
         /\ cache'.present
         /\ cache'.data = KeepFirstByUrl(BucketsInOrder(req[r].results), {})
         /\ Cardinality(Range(Urls(cache'.data))) = Len(cache'.data)
         /\ lastResp'.total = Len(cache'.data)]_vars

\* a rebuild has stored a feed of several entries in which a trending article
\* that an earlier bucket had placed was skipped in the trending bucket
WitnessTrendingSkippedAsPlaced ==
  /\ cache.present
  /\ Len(cache.data) >= 3
  /\ lastResp.success
  /\ ~lastResp.cached
  /\ \E i \in 1..Len(cache.data) :
       cache.data[i].isGithubTrending /\ cache.data[i].importanceScore >= 55

IsGetCachedStep == stats' # stats
IsHitStep == stats'.hits = stats.hits + 1

\* C7: getCached(e) hands out the stored array only if an entry exists, is
\* valid and has epoch e; in every other case, a valid entry of another epoch
\* included, it is a miss
GetCachedHitsOnlyOnSameEpoch ==
  [][IsGetCachedStep =>
       /\ IsHitStep <=> (cache.present /\ cache.isValid /\ cache.epoch = Epoch(today))
       /\ IsHitStep => /\ lastResp'.cached
                       /\ lastResp'.total = Len(cache.data)
                       /\ stats'.misses = stats.misses
       /\ ~IsHitStep => /\ stats'.misses = stats.misses + 1
                        /\ stats'.hits = stats.hits
                        /\ \E r \in RequestSlots :
                             req[r].pc = "idle" /\ req'[r].pc = "querying"]_vars

\* no pass has run, and a request of the day after the entry's epoch was
\* answered with a miss by the epoch comparison, which cleared isValid
WitnessEpochRolloverMiss ==
  /\ cache.present
  /\ ~cache.isValid
  /\ counts.passes = 0
  /\ \E r \in RequestSlots : req[r].pc = "querying" /\ req[r].epoch = cache.epoch + 1

\* C8: the first unfiltered recent-tier read that starts after an ingestion
\* pass has returned successfully is a cache miss
FirstReadAfterPassIsMiss ==
  [][(freshPass /\ IsGetCachedStep) => ~IsHitStep]_vars

\* C9: no two requests perform the store queries of a rebuild for the same
\* epoch at the same time
SingleRebuildPerEpoch ==
  \A r1, r2 \in RequestSlots :
    (r1 # r2 /\ req[r1].pc = "querying" /\ req[r2].pc = "querying")
      => req[r1].epoch # req[r2].epoch

\* a page is a run of consecutive entries of data
IsSliceOf(page, data) ==
  \E a \in 0..Len(data), b \in 0..Len(data) : page = SubSeq(Urls(data), a + 1, b)

\* C10: the stored array changes only by setCache storing a new entry as a
\* whole; upserts to the store and cache hits leave the entry as it is, and a
\* page served on a hit is a slice of the stored array
StoredFeedIsNeverMutated ==
  [][/\ (cache.present /\ cache'.present /\ cache'.data # cache.data)
          => \E r \in RequestSlots : IsAssembleStep(r)
     /\ (cache.present /\ ~cache'.present) => FALSE
     /\ store' # store => cache' = cache
     /\ (IsGetCachedStep /\ IsHitStep)
          => /\ cache' = cache
             /\ IsSliceOf(PageUrls(lastResp'), cache.data)
             /\ lastResp'.total = Len(cache.data)]_vars

\* a page was served from the cache while the store holds another score for
\* one of the cached articles than the cached array does
WitnessHitServedAfterUpsert ==
  /\ lastResp.success
  /\ lastResp.cached
  /\ cache.present
  /\ \E i \in 1..Len(cache.data) :
       store[cache.data[i].url] # cache.data[i].importanceScore

\* C13: no item whose score in the article table is below 40 appears in a page
\* of the recent tier that is served from the cache
CacheHitServesNoItemBelow40 ==
  [][(IsGetCachedStep /\ IsHitStep)
       => \A i \in 1..Len(lastResp'.articles) :
            store[lastResp'.articles[i].url] >= 40]_vars

\* C25: a rebuild that had read the table when invalidate() was called does
\* not leave a valid cache entry behind when it calls setCache
InvalidationOutlivesInFlightRebuild ==
  [][\A r \in RequestSlots :
       (IsAssembleStep(r) /\ req[r].invalidated)
         => ~(cache'.present /\ cache'.isValid)]_vars

\* C26: every article that was in the recency window with a score of at least
\* 40 from the first read of a rebuild to its end is exactly once in the feed
\* that the rebuild assembles
RebuildMissesNoArticle ==
  [][\A r \in RequestSlots :
       IsAssembleStep(r)
         => \A u \in req[r].eligible : Count(Urls(cache'.data), u) = 1]_vars

\* ------------------------------------------------------ client properties
IsClientReceiveStep == client.pc = "fetching" /\ client'.pc = "ready"

\* C11: whenever a recent-tier response reports hasMore = false, the client
\* enters historical mode with historical offset 0 and keeps its hasMore true
RecentExhaustedSwitchesToHistorical ==
  [][(/\ IsClientReceiveStep
      /\ client'.last.tier = "recent"
      /\ client'.last.success
      /\ ~client'.last.hasMore)
       => /\ client'.inHistoricalMode
          /\ client'.historicalOffset = 0
          /\ client'.hasMore]_vars

\* C12: the displayed list never holds a URL twice; an appended page adds
\* exactly its URLs that the list did not have, after the entries already
\* shown, and the historical offset advances by the number of articles returned
DisplayedListHasNoRepeatedUrl ==
  [][IsClientReceiveStep =>
       LET page == PageUrls(ServerData(client))
           shown == client.articles
       IN  /\ Cardinality(Range(client'.articles)) = Len(client'.articles)
           /\ (client'.last.success /\ client.flight.append)
                => /\ Range(client'.articles) = Range(shown) \cup Range(page)
                   /\ SubSeq(client'.articles, 1, Len(shown)) = shown
           /\ (client'.last.success /\ client.flight.fetchHistorical)
                => client'.historicalOffset = client.flight.newOffset + Len(page)]_vars

\* the first historical page after the recent tier has arrived, some of its
\* articles were already displayed and were dropped, the others were appended
WitnessBoundaryPageDeduplicated ==
  /\ client.pc = "ready"
  /\ client.last.tier = "historical"
  /\ client.last.success
  /\ client.lastDropped > 0
  /\ client.last.count > client.lastDropped
  /\ client.historicalOffset = client.last.count

\* ------------------------------------------- malformed input to the dedup
\* C20: areDuplicates and deduplicateArticles return normally for items with
\* an unparseable URL or a missing title
DedupNeverRaises == lastMerge.kind # "throw"

\* the part of C20 on unparseable URLs: such an item is never matched by the
\* same-domain rule, only by rules 1, 2 and 4
UnparseableUrlNeverMatchesByDomain ==
  [][(lastMerge'.kind = "merge" /\ pos' = pos + 1
        /\ extractDomain(articles[pos + 1].url) = <<>>)
       => MatchingRule(articles[pos + 1], canonical[lastMerge'.slot]) \in {1, 2, 4}]_vars

\* ---------------------------------------------------- pipeline properties
\* C14: in every row of the article table the label is the one that the fixed
\* thresholds give for the row's score
StoredLabelFollowsScore ==
  \A j \in 1..Len(pipe.table) :
    pipe.table[j].importanceLabel = LabelOfScore(pipe.table[j].importanceScore)

\* the articles of canonical[1..n] that scoreArticles has a result for are
\* those whose call did not fail, each with the answer given for it
ClassifiedExactlyTheUnfailed(n) ==
  \A k \in 1..Min2(n, Len(canonical)) :
    LET article == canonical[k]
    IN  /\ article.url \in DOMAIN pipe.scorings <=> article.url \notin pipe.failedScoring
        /\ article.url \in DOMAIN pipe.scorings
             => pipe.scorings[article.url] = LlmAnswer(pipe.llm, article)

ScoringIsPerItem ==
  /\ pipe.pc \in {"score", "scorePause"} => ClassifiedExactlyTheUnfailed(pipe.i)
  /\ pipe.pc \in {"scored", "summarize", "summarizePause", "summarized", "save"}
       => ClassifiedExactlyTheUnfailed(Len(canonical))
  /\ pipe.pc = "save"
       => Urls([k \in 1..Len(pipe.enrichedArticles) |-> pipe.enrichedArticles[k].article])
            = LET Unfailed(u) == u \notin pipe.failedScoring
              IN  SelectSeq(Urls(canonical), Unfailed)
  /\ pipe.failedScoring # {} => ~pipe.threw

\* C15: a call of scoreArticle that fails leaves only its own article out of
\* the result map, every other article of the batch and of the later batches
\* is in the map, the pass goes on, and it writes no row for the article that
\* has no result
ScoringFailureOmitsOnlyThatItem ==
  [][/\ ScoringIsPerItem'
     /\ (pipe'.table # pipe.table /\ pipe.pc = "save")
          => /\ pipe.enrichedArticles[pipe.i + 1].article.url \notin pipe.failedScoring
             /\ \A j \in 1..Len(pipe.table) :
                  pipe'.table[j] # pipe.table[j]
                    => pipe.table[j].url \notin pipe.failedScoring]_vars

\* a pass of two batches has returned: a call of the first batch had failed,
\* the other articles of that batch and the article of the second batch have
\* their rows, the failed one has none
WitnessFailedScoringSkipped ==
  /\ pipe.pc = "done"
  /\ pipe.result.success
  /\ Len(canonical) > DefaultBatchSize
  /\ \E k \in 1..DefaultBatchSize :
       /\ canonical[k].url \in pipe.failedScoring
       /\ \A j \in 1..Len(pipe.table) : pipe.table[j].url # canonical[k].url
       /\ \A m \in (1..Len(canonical)) \ {k} :
            \E j \in 1..Len(pipe.table) : pipe.table[j].url = canonical[m].url

\* C16: a pass in which a source adapter failed, and nothing else threw, does
\* not end as a pass-level failure
AdapterFailureNeverFailsThePass ==
  (/\ pipe.pc = "done"
   /\ (pipe.githubFails \/ pipe.hnFails \/ ~pipe.useMockData)
   /\ lastMerge.kind # "throw")
    => pipe.result.success

\* C17: an exception of the fetch or of the deduplication ends runPipeline by
\* its return from the catch block: success false, articlesProcessed 0,
\* articlesSaved 0 and a non-empty errors array; every finished run has a result
PassLevelFailureReturnsZeroProgress ==
  /\ (lastMerge.kind = "throw" \/ (pipe.run > 0 /\ ~pipe.useMockData))
       => pipe.pc = "done" /\ pipe.threw
  /\ (pipe.pc = "done" /\ pipe.threw)
       => /\ ~pipe.result.success
          /\ pipe.result.articlesProcessed = 0
          /\ pipe.result.articlesSaved = 0
          /\ Len(pipe.result.errors) > 0
  /\ pipe.pc = "done" => pipe.result # NoResult

\* the TypeError of the deduplication was caught in a run that followed one
\* which had saved rows
WitnessDedupThrowCaught ==
  /\ pipe.pc = "done"
  /\ pipe.threw
  /\ lastMerge.kind = "throw"
  /\ pos > 0
  /\ Len(pipe.table) > 0

IsSaveStep == pipe.pc = "save" /\ pipe'.pc = "save"

\* C18: an iteration of the save loop that fails adds one entry to errors and
\* the loop goes on with the next item; the run returns success true with the
\* errors collected, every classified item was attempted, and articlesSaved
\* plus the number of errors is the number of classified items
SaveFailureIsCollectedPerItem ==
  [][/\ (IsSaveStep /\ pipe'.errors # pipe.errors)
          => /\ pipe'.errors = Append(pipe.errors,
                   SaveError(pipe.enrichedArticles[pipe.i + 1].article))
             /\ pipe'.savedCount = pipe.savedCount
             /\ pipe'.i = pipe.i + 1
     /\ pipe'.pc = "save" => pipe'.savedCount + Len(pipe'.errors) = pipe'.i
     /\ (pipe.pc = "save" /\ pipe'.pc = "done")
          => /\ pipe.i = Len(pipe.enrichedArticles)
             /\ pipe'.result.success
             /\ pipe'.result.errors = pipe.errors
             /\ pipe'.result.articlesSaved + Len(pipe'.result.errors)
                  = Len(pipe.enrichedArticles)
             /\ Len(pipe.enrichedArticles) = Cardinality(DOMAIN pipe.scorings)]_vars

\* a run has returned success with one error of an item that was not the last
\* one of the loop, and with every other classified item saved
WitnessSaveFailureCollected ==
  /\ pipe.pc = "done"
  /\ pipe.result.success
  /\ Len(pipe.result.errors) = 1
  /\ Len(pipe.failedSaving) = 1
  /\ pipe.failedSaving[1] < Len(pipe.enrichedArticles)
  /\ pipe.result.articlesSaved = Len(pipe.enrichedArticles) - 1
  /\ pipe.result.articlesSaved > 0

\* C19: the article table never holds two rows with one URL; an upsert for a
\* URL that has a row changes the summary, the score and the label of that row
\* and nothing else, and adds no row
UpsertKeepsOneRowPerUrl ==
  [][/\ \A j1, j2 \in 1..Len(pipe'.table) :
          pipe'.table[j1].url = pipe'.table[j2].url => j1 = j2
     /\ (pipe.pc = "save" /\ pipe'.table # pipe.table)
          => LET item == pipe.enrichedArticles[pipe.i + 1]
                 present == {j \in 1..Len(pipe.table) :
                               pipe.table[j].url = item.article.url}
             IN  IF present = {}
                 THEN pipe'.table =
                        Append(pipe.table,
                               CreatedRow(item.article, item.scoring, item.summary))
                 ELSE /\ Len(pipe'.table) = Len(pipe.table)
                      /\ \A j \in 1..Len(pipe.table) :
                           IF j \in present
                           THEN pipe'.table[j] =
                                  [pipe.table[j] EXCEPT
                                     !.summarized = item.summary,
                                     !.importanceScore = item.scoring.score,
                                     !.importanceLabel = item.scoring.label]
                           ELSE pipe'.table[j] = pipe.table[j]]_vars

\* the second run has saved an article that the first run had created: its
\* row carries the score of this run and the category of the first
WitnessRerunUpdatedRow ==
  /\ pipe.run = 2
  /\ pipe.pc = "done"
  /\ pipe.result.success
  /\ \E j \in 1..Len(pipe.table) :
       LET row == pipe.table[j]
       IN  /\ row.url \in DOMAIN pipe.scorings
           /\ row.importanceScore = pipe.scorings[row.url].score
           /\ row.importanceLabel = pipe.scorings[row.url].label
           /\ row.category # pipe.scorings[row.url].category

\* C28: a merged-away duplicate is recorded once for its canonical article,
\* however many passes have run over the same fetched items
ProvenanceRecordedOncePerDuplicate ==
  \A i, j \in 1..Len(pipe.dupTable) :
    i # j => pipe.dupTable[i] # pipe.dupTable[j]

\* ---------------------------------------------------- parameter properties
IsDigits(str) == Len(str) > 0 /\ \A i \in 1..Len(str) : IsDigitOf(str[i], 10)

\* C27: whatever the limit and offset parameters are, a recent-tier page has
\* at most 50 articles, and at most limit articles when limit is written as a
\* non-negative integer
RecentPageIsCapped ==
  pageReq.pc = "served" =>
    /\ Len(pageReq.articles) <= 50
    /\ (pageReq.rawLimit # << >> /\ IsDigits(pageReq.rawLimit[1]))
         => Len(pageReq.articles) <= DigitsValue(pageReq.rawLimit[1], 10, 0)

\* ------------------------------------------------------- scorer properties
CeilDiv(n, b) == (n + b - 1) \div b
ScorerReturned == scorer.pc = "returned"
\* the positions of group k of n items in groups of b
GroupOf(k, n, b) == [index \in 1..(Min2(k * b, n) - (k - 1) * b) |-> (k - 1) * b + index]

\* C24: scoreArticles over n items with batch size b >= 1 makes ceil(n/b)
\* consecutive groups of at most b items; a group starts only when every call
\* of the group before has settled and the pause has elapsed; there is a pause
\* between two groups and none after the last; every item is classified
\* exactly once; and the function returns
ScoringRunsInPausedGroups ==
  /\ [](ScorerReturned =>
          LET n == Len(scorer.articles)
              b == scorer.batchSize
          IN  /\ Len(scorer.groups) = CeilDiv(n, b)
              /\ \A k \in 1..Len(scorer.groups) : scorer.groups[k] = GroupOf(k, n, b)
              /\ scorer.pauses = Max2(Len(scorer.groups) - 1, 0)
              /\ \A k \in 1..n : scorer.calls[k] = 1)
  /\ [][Len(scorer'.groups) > Len(scorer.groups)
          => /\ scorer.pending = {}
             /\ Len(scorer.groups) > 0 => scorer.paused]_vars
  /\ [][scorer'.pc = "returned" => scorer.pc = "loop" /\ ~scorer.paused]_vars
  /\ <>ScorerReturned

\* five items in groups of two have been scored, the second call having
\* returned null: three groups, the last one of a single item
WitnessThreeGroupsLastShort ==
  /\ ScorerReturned
  /\ Len(scorer.articles) = 5
  /\ scorer.batchSize = 2
  /\ Len(scorer.groups) = 3
  /\ Len(scorer.groups[3]) = 1
  /\ scorer.pauses = 2
  /\ Cardinality(DOMAIN scorer.results) = 4

\* -------------------------------------------------------- route properties
\* the label of the recent tier by score and trending flag of the article
RecentLabel(entry) ==
  IF entry.importanceScore >= 95 THEN "critical"
  ELSE IF UrlAttrs[entry.url].isGithubTrending THEN "spotlight"
  ELSE "noteworthy"
IsRebuildResponseStep == \E r \in RequestSlots : req[r].pc = "querying" /\ req'[r].pc = "idle"
IsCacheHitStep == stats'.hits = stats.hits + 1
IsHistoricalResponseStep == \E r \in RequestSlots : req[r].pc = "counting" /\ req'[r].pc = "idle"

\* C21: every entry of a recent page, whether served from the cache or from a
\* rebuild, is labelled critical for a score of at least 95, else spotlight if
\* it is trending, else noteworthy; every entry of a historical page is
\* labelled historical whatever its score
SectionFollowsScoreThenTrending ==
  [][/\ (IsRebuildResponseStep \/ IsCacheHitStep)
          => \A i \in 1..Len(lastResp'.articles) :
               lastResp'.articles[i].section = RecentLabel(lastResp'.articles[i])
     /\ IsHistoricalResponseStep
          => \A i \in 1..Len(lastResp'.articles) :
               lastResp'.articles[i].section = "historical"]_vars

\* a cache hit has served a page with a trending article of score 96 labelled
\* critical, a trending article labelled spotlight and a noteworthy one
WitnessHitPageWithThreeLabels ==
  /\ lastResp.success
  /\ lastResp.cached
  /\ \E i \in 1..Len(lastResp.articles) :
       /\ lastResp.articles[i].section = "critical"
       /\ UrlAttrs[lastResp.articles[i].url].isGithubTrending
  /\ \E i \in 1..Len(lastResp.articles) : lastResp.articles[i].section = "spotlight"
  /\ \E i \in 1..Len(lastResp.articles) : lastResp.articles[i].section = "noteworthy"

\* C22: a rebuild or a historical read that meets a store error answers with
\* success false, no articles, count 0 and an error message, and does not
\* write the cache entry
FailedReadAnswersWithBodyAndNoCacheWrite ==
  [][\A r \in RequestSlots :
       /\ (req[r].pc \in {"caught", "caughtHistorical"} /\ req'[r].pc = "idle")
            => /\ lastResp'.success = FALSE
               /\ lastResp'.articles = <<>>
               /\ lastResp'.count = 0
               /\ lastResp'.error = StoreError
               /\ cache' = cache
       /\ (req[r].pc \in {"querying", "historical", "counting"}
             /\ req'[r].pc \in {"caught", "caughtHistorical"})
            => cache' = cache]_vars

\* a rebuild after a cache miss has failed: the error body is the last
\* response and there is no cache entry
WitnessRebuildFailedCacheEmpty ==
  /\ stats.misses = 1
  /\ \A r \in RequestSlots : req[r].pc = "idle"
  /\ lastResp = errorBody(StoreError)
  /\ ~cache.present

\* a request that is in flight with a filter or for the historical tier
Bypasses(q) ==
  /\ q.pc # "idle"
  /\ \/ q.languages # {}
     \/ q.frameworks # {}
     \/ q.pc \in {"historical", "counting", "caughtHistorical"}

\* C30: no step of a request with a languages or frameworks filter or with
\* older=true changes the cache entry or the hit and miss counters, and the
\* cache entry changes only in a step of a request without them
FilteredAndOlderRequestsBypassTheCache ==
  [][/\ \A r \in RequestSlots :
          (req'[r] # req[r] /\ (Bypasses(req[r]) \/ Bypasses(req'[r])))
            => cache' = cache /\ stats' = stats
     /\ cache' # cache
          => \E r \in RequestSlots :
               /\ req'[r] # req[r]
               /\ ~(Bypasses(req[r]) \/ Bypasses(req'[r]))]_vars

\* a filtered or historical request has answered from the table while a valid
\* cache entry with another number of articles exists, after one miss only
WitnessFilteredAnswerBesideCache ==
  /\ cache.present
  /\ cache.isValid
  /\ stats = [hits |-> 0, misses |-> 1]
  /\ lastResp.success
  /\ ~lastResp.cached
  /\ lastResp.total # Len(cache.data)

====
